---- MODULE Spec2Model ----
(***************************************************************************)
(* A model of icl ("i"), the wrapper that turns the help text of a command *)
(* line program into an interactive option picker:                         *)
(*   option.rs   the CliOption record and its operations                   *)
(*   builder.rs  build_command, the command assembler                      *)
(*   parser.rs   parse_help and extract_choices, the option extractor      *)
(*   tui.rs      App and the event loop of run, the interaction engine     *)
(*   main.rs     get_help_text and main, the acquisition of the help text  *)
(*   output.rs   handle_output, the output sink                            *)
(*   wizard.rs   Wizard and the event loop of its run, the step wizard     *)
(*   config.rs   Config, Step and Answer, the data of the wizard           *)
(*                                                                         *)
(* A Rust String is a sequence of one-character strings, so that format!,  *)
(* join, trim and the regular expressions act on characters.  An           *)
(* Option<T> is a sequence of length at most one: None is << >> and        *)
(* Some(x) is <<x>>.  A usize index is kept 0-based as in the source; the  *)
(* element of a Vec v at index i is v[i + 1].                              *)
(***************************************************************************)
EXTENDS Naturals, Sequences, FiniteSets, TLC

(***************************************************************************)
(* The state.                                                              *)
(*   help, base_command    the inputs of the run: the name of the help     *)
(*                         text that was acquired and args.command         *)
(*   options .. output_mode   the fields of App (tui.rs)                   *)
(*   key                   the event the loop of run read last             *)
(*   preview               the command the last draw showed (ui calls      *)
(*                         App::build_command)                             *)
(*   session, result       where run is and what it returned               *)
(*   toggle_order          history: the indices of the selected options in *)
(*                         the order in which they were turned on          *)
(*   prior                 history: the command the draw before the last   *)
(*                         event showed                                    *)
(*   sink                  what main handed to handle_output, if anything  *)
(*   p_pc .. p_cmd         the pure-function specification: its position,  *)
(*                         the inputs drawn and the values computed        *)
(*   u_pc, u_in, u_out     the specifications of one call of               *)
(*                         handle_input_key, of next_choice and            *)
(*                         prev_choice, of parse_help, of extract_choices, *)
(*                         of main, of handle_output and of the run of the *)
(*                         wizard: position, input drawn, result (for the  *)
(*                         wizard: the Wizard, the key read last, the      *)
(*                         answers before it, and the result of run)       *)
(***************************************************************************)
VARIABLES help, base_command, options, list_state, mode, input_buffer,
          should_quit, output_mode, key, preview, session, result,
          toggle_order, prior, sink, p_pc, p_base, p_opts, p_args, p_cmd,
          u_pc, u_in, u_out

app_vars == <<help, base_command, options, list_state, mode, input_buffer,
              should_quit, output_mode, key, preview, session, result,
              toggle_order, prior, sink>>

pure_vars == <<p_pc, p_base, p_opts, p_args, p_cmd>>

unit_vars == <<u_pc, u_in, u_out>>

vars == <<app_vars, pure_vars, unit_vars>>

(***************************************************************************)
(* Bounds of the model.                                                    *)
(***************************************************************************)
\* the longest option list the pure-function specification draws
MaxOpts == 2
\* the longest edit buffer the interaction engine accepts characters into
MaxBuf == 2
\* the longest choice list next_choice and prev_choice are applied to
MaxChoices == 3

\* the lines of a help text drawn for one call of parse_help
MaxLines == 3

\* the entries of a bracketed enumeration drawn for one call of
\* extract_choices
MaxEntries == 3

\* the most characters typed into the text of a wizard step
MaxText == 1

(***************************************************************************)
(* Option<T>                                                               *)
(***************************************************************************)
None == << >>

Some(x) == <<x>>

is_some(o) == o # None

(***************************************************************************)
(* Strings                                                                 *)
(***************************************************************************)
SPACE == " "

\* str::is_empty
is_empty(s) == Len(s) = 0

\* [String]::join(" "): the parts with one space between neighbours
RECURSIVE join(_)
join(parts) ==
  IF Len(parts) = 0 THEN << >>
  ELSE IF Len(parts) = 1 THEN parts[1]
  ELSE parts[1] \o <<SPACE>> \o join(Tail(parts))

(***************************************************************************)
(* Characters, as the regex crate classifies them                          *)
(***************************************************************************)
Lower == {"a", "b", "c", "d", "e", "f", "g", "h", "i", "j", "k", "l", "m",
          "n", "o", "p", "q", "r", "s", "t", "u", "v", "w", "x", "y", "z"}

Upper == {"A", "B", "C", "D", "E", "F", "G", "H", "I", "J", "K", "L", "M",
          "N", "O", "P", "Q", "R", "S", "T", "U", "V", "W", "X", "Y", "Z"}

Digit == {"0", "1", "2", "3", "4", "5", "6", "7", "8", "9"}

\* \s, and char::is_whitespace of str::trim
is_whitespace(c) == c \in {" ", "\t", "\n", "\r"}

\* [a-zA-Z]
is_letter(c) == c \in Lower \cup Upper

\* [\w-]
is_word_or_dash(c) == c \in Lower \cup Upper \cup Digit \cup {"_", "-"}

\* str::find(c) from position p on: the first position >= p of t that
\* holds c, or Len(t) + 1 when there is none
find_char(t, p, c) ==
  LET at == {q \in p..Len(t) : t[q] = c}
  IN  IF at = {} THEN Len(t) + 1
      ELSE CHOOSE q \in at : \A r \in at : q <= r

\* str::trim_start and str::trim_end
RECURSIVE trim_start(_)
trim_start(s) ==
  IF Len(s) > 0 /\ is_whitespace(s[1]) THEN trim_start(Tail(s)) ELSE s

RECURSIVE trim_end(_)
trim_end(s) ==
  IF Len(s) > 0 /\ is_whitespace(s[Len(s)])
  THEN trim_end(SubSeq(s, 1, Len(s) - 1)) ELSE s

\* str::trim
trim(s) == trim_end(trim_start(s))

\* a CliOption::new that starts the value at the placeholder of the help
CliOption_new_hint_as_value(short, long, description, takes_value, value_hint, choices) ==
  [short |-> short, long |-> long, description |-> description,
   takes_value |-> takes_value, value_hint |-> value_hint,
   selected |-> FALSE,
   value |-> IF is_some(value_hint) THEN value_hint[1] ELSE << >>,
   choices |-> choices, choice_index |-> 0]

(***************************************************************************)
(* option.rs: CliOption                                                    *)
(***************************************************************************)
\* CliOption::new: the interaction fields start unselected, empty and 0
CliOption_new(short, long, description, takes_value, value_hint, choices) ==
  [short |-> short, long |-> long, description |-> description,
   takes_value |-> takes_value, value_hint |-> value_hint,
   selected |-> FALSE, value |-> << >>, choices |-> choices,
   choice_index |-> 0]

\* CliOption::has_choices: choices is Some of a non-empty list
has_choices(opt) ==
  IF is_some(opt.choices) THEN ~(Len(opt.choices[1]) = 0) ELSE FALSE

\* CliOption::current_choice: choices.get(choice_index), None out of range
current_choice(opt) ==
  IF is_some(opt.choices)
  THEN IF opt.choice_index < Len(opt.choices[1])
       THEN Some(opt.choices[1][opt.choice_index + 1])
       ELSE None
  ELSE None

\* a next_choice that does not wrap around
next_choice_rotates_choices(opt) ==
  IF is_some(opt.choices) /\ ~(Len(opt.choices[1]) = 0)
  THEN [opt EXCEPT !.choices = Some(Tail(opt.choices[1])
                                    \o <<Head(opt.choices[1])>>)]
  ELSE opt

next_choice_no_wrap(opt) ==
  IF is_some(opt.choices) /\ ~(Len(opt.choices[1]) = 0)
  THEN [opt EXCEPT !.choice_index = opt.choice_index + 1]
  ELSE opt

\* CliOption::next_choice
next_choice(opt) ==
  IF is_some(opt.choices) /\ ~(Len(opt.choices[1]) = 0)
  THEN [opt EXCEPT !.choice_index = (opt.choice_index + 1) % Len(opt.choices[1])]
  ELSE opt

\* a prev_choice that stops at the first choice
prev_choice_saturates(opt) ==
  IF is_some(opt.choices) /\ ~(Len(opt.choices[1]) = 0)
  THEN [opt EXCEPT !.choice_index =
           IF opt.choice_index = 0 THEN 0 ELSE opt.choice_index - 1]
  ELSE opt

\* CliOption::prev_choice
prev_choice(opt) ==
  IF is_some(opt.choices) /\ ~(Len(opt.choices[1]) = 0)
  THEN [opt EXCEPT !.choice_index =
           IF opt.choice_index = 0 THEN Len(opt.choices[1]) - 1
           ELSE opt.choice_index - 1]
  ELSE opt

\* a flag token that prefers the short form
to_arg_flag_short_first(opt) ==
  IF is_some(opt.short) THEN Some(<<"-", opt.short[1]>>)
  ELSE IF is_some(opt.long) THEN Some(<<"-", "-">> \o opt.long[1])
  ELSE None

\* the flag token of to_arg: "--long" if long is Some, else "-s" if short
\* is Some, else none (to_arg then returns None)
to_arg_flag(opt) ==
  IF is_some(opt.long) THEN Some(<<"-", "-">> \o opt.long[1])
  ELSE IF is_some(opt.short) THEN Some(<<"-", opt.short[1]>>)
  ELSE None

\* a value part that emits the bare flag of a value-taking option whose
\* value is empty
to_arg_value_dangling(opt, flag) ==
  IF is_some(current_choice(opt))
  THEN Some(flag \o <<SPACE>> \o current_choice(opt)[1])
  ELSE IF opt.takes_value /\ ~is_empty(opt.value)
  THEN Some(flag \o <<SPACE>> \o opt.value)
  ELSE Some(flag)

\* a value part that looks at the free-form value before the choice
to_arg_value_value_first(opt, flag) ==
  IF opt.takes_value /\ ~is_empty(opt.value)
  THEN Some(flag \o <<SPACE>> \o opt.value)
  ELSE IF is_some(current_choice(opt))
  THEN Some(flag \o <<SPACE>> \o current_choice(opt)[1])
  ELSE IF opt.takes_value THEN None
  ELSE Some(flag)

\* the tail of to_arg: the choice, else the free-form value, else nothing
\* for a value-taking option, else the bare flag
to_arg_value(opt, flag) ==
  IF is_some(current_choice(opt))
  THEN Some(flag \o <<SPACE>> \o current_choice(opt)[1])
  ELSE IF opt.takes_value /\ ~is_empty(opt.value)
  THEN Some(flag \o <<SPACE>> \o opt.value)
  ELSE IF opt.takes_value THEN None
  ELSE Some(flag)

\* a to_arg that does not look at selected
to_arg_ignores_selected(opt) ==
  IF is_some(to_arg_flag(opt)) THEN to_arg_value(opt, to_arg_flag(opt)[1])
  ELSE None

\* CliOption::to_arg
to_arg(opt) ==
  IF ~opt.selected THEN None
  ELSE IF is_some(to_arg_flag(opt)) THEN to_arg_value(opt, to_arg_flag(opt)[1])
  ELSE None

(***************************************************************************)
(* parser.rs: the regular expressions.  A regular expression is the        *)
(* program of a backtracking matcher, an instruction per element:          *)
(*   char c      the character c                                           *)
(*   class n     a character of the class n                                *)
(*   star n      as many characters of the class n as there are, then      *)
(*               fewer if that does not lead to a match (n*, greedy);      *)
(*               n+ is  class n; star n                                    *)
(*   bol, eol    (?m)^ and (?m)$                                           *)
(*   save i      capture group (i + 1) \div 2 starts (i odd) or ends here  *)
(*   split x y   go on at x, and at y if that does not lead to a match     *)
(*   jmp x       go on at x                                                *)
(*   match       the expression has matched                                *)
(* e? is  split L1 L2; L1: e; L2:   and   a|b is  split L1 L2; L1: a;      *)
(* jmp L3; L2: b; L3:   so that the first match of the program in          *)
(* backtracking order is the match the regex crate reports (leftmost-      *)
(* first: a greedy repetition takes the most first, an optional part is    *)
(* tried before it is skipped, alternatives are tried in order).           *)
(***************************************************************************)
\* the character classes of the expressions
in_class(n, c) ==
  IF n = "space" THEN is_whitespace(c)                \* \s
  ELSE IF n = "not_space" THEN ~is_whitespace(c)      \* \S
  ELSE IF n = "letter" THEN is_letter(c)              \* [a-zA-Z]
  ELSE IF n = "word_dash" THEN is_word_or_dash(c)     \* [\w-]
  ELSE IF n = "eq_or_space" THEN c = "=" \/ is_whitespace(c)   \* [=\s]
  ELSE IF n = "not_gt" THEN ~(c = ">")                \* [^>]
  ELSE IF n = "not_rbracket" THEN ~(c = "]")          \* [^\]]
  ELSE ~(c = "\n")                                    \* .

\* pattern (parse_help):
\*   (?m)^\s*(-([a-zA-Z]),?\s*)?(?:--([\w-]+))?(?:\.\.\.)?
\*   (?:[=\s]<([^>]+)>|=(\S+))?\s{2,}(.+)$
pattern ==
  << [op |-> "bol",   c |-> "",             x |->  0, y |->  0],   \* 1
     [op |-> "star",  c |-> "space",        x |->  0, y |->  0],   \* 2
     [op |-> "split", c |-> "",             x |->  4, y |-> 13],   \* 3
     [op |-> "save",  c |-> "",             x |->  1, y |->  0],   \* 4
     [op |-> "char",  c |-> "-",            x |->  0, y |->  0],   \* 5
     [op |-> "save",  c |-> "",             x |->  3, y |->  0],   \* 6
     [op |-> "class", c |-> "letter",       x |->  0, y |->  0],   \* 7
     [op |-> "save",  c |-> "",             x |->  4, y |->  0],   \* 8
     [op |-> "split", c |-> "",             x |-> 10, y |-> 11],   \* 9
     [op |-> "char",  c |-> ",",            x |->  0, y |->  0],   \* 10
     [op |-> "star",  c |-> "space",        x |->  0, y |->  0],   \* 11
     [op |-> "save",  c |-> "",             x |->  2, y |->  0],   \* 12
     [op |-> "split", c |-> "",             x |-> 14, y |-> 20],   \* 13
     [op |-> "char",  c |-> "-",            x |->  0, y |->  0],   \* 14
     [op |-> "char",  c |-> "-",            x |->  0, y |->  0],   \* 15
     [op |-> "save",  c |-> "",             x |->  5, y |->  0],   \* 16
     [op |-> "class", c |-> "word_dash",    x |->  0, y |->  0],   \* 17
     [op |-> "star",  c |-> "word_dash",    x |->  0, y |->  0],   \* 18
     [op |-> "save",  c |-> "",             x |->  6, y |->  0],   \* 19
     [op |-> "split", c |-> "",             x |-> 21, y |-> 24],   \* 20
     [op |-> "char",  c |-> ".",            x |->  0, y |->  0],   \* 21
     [op |-> "char",  c |-> ".",            x |->  0, y |->  0],   \* 22
     [op |-> "char",  c |-> ".",            x |->  0, y |->  0],   \* 23
     [op |-> "split", c |-> "",             x |-> 25, y |-> 39],   \* 24
     [op |-> "split", c |-> "",             x |-> 26, y |-> 34],   \* 25
     [op |-> "class", c |-> "eq_or_space",  x |->  0, y |->  0],   \* 26
     [op |-> "char",  c |-> "<",            x |->  0, y |->  0],   \* 27
     [op |-> "save",  c |-> "",             x |->  7, y |->  0],   \* 28
     [op |-> "class", c |-> "not_gt",       x |->  0, y |->  0],   \* 29
     [op |-> "star",  c |-> "not_gt",       x |->  0, y |->  0],   \* 30
     [op |-> "save",  c |-> "",             x |->  8, y |->  0],   \* 31
     [op |-> "char",  c |-> ">",            x |->  0, y |->  0],   \* 32
     [op |-> "jmp",   c |-> "",             x |-> 39, y |->  0],   \* 33
     [op |-> "char",  c |-> "=",            x |->  0, y |->  0],   \* 34
     [op |-> "save",  c |-> "",             x |->  9, y |->  0],   \* 35
     [op |-> "class", c |-> "not_space",    x |->  0, y |->  0],   \* 36
     [op |-> "star",  c |-> "not_space",    x |->  0, y |->  0],   \* 37
     [op |-> "save",  c |-> "",             x |-> 10, y |->  0],   \* 38
     [op |-> "class", c |-> "space",        x |->  0, y |->  0],   \* 39
     [op |-> "class", c |-> "space",        x |->  0, y |->  0],   \* 40
     [op |-> "star",  c |-> "space",        x |->  0, y |->  0],   \* 41
     [op |-> "save",  c |-> "",             x |-> 11, y |->  0],   \* 42
     [op |-> "class", c |-> "dot",          x |->  0, y |->  0],   \* 43
     [op |-> "star",  c |-> "dot",          x |->  0, y |->  0],   \* 44
     [op |-> "save",  c |-> "",             x |-> 12, y |->  0],   \* 45
     [op |-> "eol",   c |-> "",             x |->  0, y |->  0],   \* 46
     [op |-> "match", c |-> "",             x |->  0, y |->  0] >>   \* 47

\* simple_pattern (parse_help):
\*   (?m)^\s*(-([a-zA-Z]))\s{2,}(.+)$
simple_pattern ==
  << [op |-> "bol",   c |-> "",             x |->  0, y |->  0],   \* 1
     [op |-> "star",  c |-> "space",        x |->  0, y |->  0],   \* 2
     [op |-> "save",  c |-> "",             x |->  1, y |->  0],   \* 3
     [op |-> "char",  c |-> "-",            x |->  0, y |->  0],   \* 4
     [op |-> "save",  c |-> "",             x |->  3, y |->  0],   \* 5
     [op |-> "class", c |-> "letter",       x |->  0, y |->  0],   \* 6
     [op |-> "save",  c |-> "",             x |->  4, y |->  0],   \* 7
     [op |-> "save",  c |-> "",             x |->  2, y |->  0],   \* 8
     [op |-> "class", c |-> "space",        x |->  0, y |->  0],   \* 9
     [op |-> "class", c |-> "space",        x |->  0, y |->  0],   \* 10
     [op |-> "star",  c |-> "space",        x |->  0, y |->  0],   \* 11
     [op |-> "save",  c |-> "",             x |->  5, y |->  0],   \* 12
     [op |-> "class", c |-> "dot",          x |->  0, y |->  0],   \* 13
     [op |-> "star",  c |-> "dot",          x |->  0, y |->  0],   \* 14
     [op |-> "save",  c |-> "",             x |->  6, y |->  0],   \* 15
     [op |-> "eol",   c |-> "",             x |->  0, y |->  0],   \* 16
     [op |-> "match", c |-> "",             x |->  0, y |->  0] >>   \* 17

\* long_only_pattern (parse_help):
\*   (?m)^\s*--([\w-]+)(?:[=\s]<([^>]+)>|=(\S+))?\s{2,}(.+)$
long_only_pattern ==
  << [op |-> "bol",   c |-> "",             x |->  0, y |->  0],   \* 1
     [op |-> "star",  c |-> "space",        x |->  0, y |->  0],   \* 2
     [op |-> "char",  c |-> "-",            x |->  0, y |->  0],   \* 3
     [op |-> "char",  c |-> "-",            x |->  0, y |->  0],   \* 4
     [op |-> "save",  c |-> "",             x |->  1, y |->  0],   \* 5
     [op |-> "class", c |-> "word_dash",    x |->  0, y |->  0],   \* 6
     [op |-> "star",  c |-> "word_dash",    x |->  0, y |->  0],   \* 7
     [op |-> "save",  c |-> "",             x |->  2, y |->  0],   \* 8
     [op |-> "split", c |-> "",             x |-> 10, y |-> 24],   \* 9
     [op |-> "split", c |-> "",             x |-> 11, y |-> 19],   \* 10
     [op |-> "class", c |-> "eq_or_space",  x |->  0, y |->  0],   \* 11
     [op |-> "char",  c |-> "<",            x |->  0, y |->  0],   \* 12
     [op |-> "save",  c |-> "",             x |->  3, y |->  0],   \* 13
     [op |-> "class", c |-> "not_gt",       x |->  0, y |->  0],   \* 14
     [op |-> "star",  c |-> "not_gt",       x |->  0, y |->  0],   \* 15
     [op |-> "save",  c |-> "",             x |->  4, y |->  0],   \* 16
     [op |-> "char",  c |-> ">",            x |->  0, y |->  0],   \* 17
     [op |-> "jmp",   c |-> "",             x |-> 24, y |->  0],   \* 18
     [op |-> "char",  c |-> "=",            x |->  0, y |->  0],   \* 19
     [op |-> "save",  c |-> "",             x |->  5, y |->  0],   \* 20
     [op |-> "class", c |-> "not_space",    x |->  0, y |->  0],   \* 21
     [op |-> "star",  c |-> "not_space",    x |->  0, y |->  0],   \* 22
     [op |-> "save",  c |-> "",             x |->  6, y |->  0],   \* 23
     [op |-> "class", c |-> "space",        x |->  0, y |->  0],   \* 24
     [op |-> "class", c |-> "space",        x |->  0, y |->  0],   \* 25
     [op |-> "star",  c |-> "space",        x |->  0, y |->  0],   \* 26
     [op |-> "save",  c |-> "",             x |->  7, y |->  0],   \* 27
     [op |-> "class", c |-> "dot",          x |->  0, y |->  0],   \* 28
     [op |-> "star",  c |-> "dot",          x |->  0, y |->  0],   \* 29
     [op |-> "save",  c |-> "",             x |->  8, y |->  0],   \* 30
     [op |-> "eol",   c |-> "",             x |->  0, y |->  0],   \* 31
     [op |-> "match", c |-> "",             x |->  0, y |->  0] >>   \* 32

\* choices_pattern (extract_choices):
\*   \[(?:possible\s+)?values?:\s*([^\]]+)\]
choices_pattern ==
  << [op |-> "char",  c |-> "[",            x |->  0, y |->  0],   \* 1
     [op |-> "split", c |-> "",             x |->  3, y |-> 13],   \* 2
     [op |-> "char",  c |-> "p",            x |->  0, y |->  0],   \* 3
     [op |-> "char",  c |-> "o",            x |->  0, y |->  0],   \* 4
     [op |-> "char",  c |-> "s",            x |->  0, y |->  0],   \* 5
     [op |-> "char",  c |-> "s",            x |->  0, y |->  0],   \* 6
     [op |-> "char",  c |-> "i",            x |->  0, y |->  0],   \* 7
     [op |-> "char",  c |-> "b",            x |->  0, y |->  0],   \* 8
     [op |-> "char",  c |-> "l",            x |->  0, y |->  0],   \* 9
     [op |-> "char",  c |-> "e",            x |->  0, y |->  0],   \* 10
     [op |-> "class", c |-> "space",        x |->  0, y |->  0],   \* 11
     [op |-> "star",  c |-> "space",        x |->  0, y |->  0],   \* 12
     [op |-> "char",  c |-> "v",            x |->  0, y |->  0],   \* 13
     [op |-> "char",  c |-> "a",            x |->  0, y |->  0],   \* 14
     [op |-> "char",  c |-> "l",            x |->  0, y |->  0],   \* 15
     [op |-> "char",  c |-> "u",            x |->  0, y |->  0],   \* 16
     [op |-> "char",  c |-> "e",            x |->  0, y |->  0],   \* 17
     [op |-> "split", c |-> "",             x |-> 19, y |-> 20],   \* 18
     [op |-> "char",  c |-> "s",            x |->  0, y |->  0],   \* 19
     [op |-> "char",  c |-> ":",            x |->  0, y |->  0],   \* 20
     [op |-> "star",  c |-> "space",        x |->  0, y |->  0],   \* 21
     [op |-> "save",  c |-> "",             x |->  1, y |->  0],   \* 22
     [op |-> "class", c |-> "not_rbracket", x |->  0, y |->  0],   \* 23
     [op |-> "star",  c |-> "not_rbracket", x |->  0, y |->  0],   \* 24
     [op |-> "save",  c |-> "",             x |->  2, y |->  0],   \* 25
     [op |-> "char",  c |-> "]",            x |->  0, y |->  0],   \* 26
     [op |-> "match", c |-> "",             x |->  0, y |->  0] >>   \* 27

\* no capture group has matched: twelve positions, 0 for none
NoCaptures == [i \in 1..12 |-> 0]

NoMatch == [ok |-> FALSE, caps |-> NoCaptures, start |-> 0, end |-> 0]

\* the least element of a non-empty set of numbers
Min(S) == CHOOSE x \in S : \A y \in S : x <= y

\* the number of consecutive characters of the class n in t from p on
run_length(n, t, p) ==
  LET stops == {q \in p..Len(t) : ~in_class(n, t[q])}
  IN  IF stops = {} THEN Len(t) + 1 - p ELSE Min(stops) - p

\* the first match in backtracking order of prog from its instruction pc
\* on, at position p of t, with the capture positions caps so far;
\* star_from is the star instruction at pc taking k characters, then
\* k - 1, down to none
RECURSIVE backtrack(_, _, _, _, _)
RECURSIVE star_from(_, _, _, _, _, _)
star_from(prog, t, pc, p, caps, k) ==
  LET rest == backtrack(prog, t, pc + 1, p + k, caps)
  IN  IF rest.ok THEN rest
      ELSE IF k = 0 THEN NoMatch
      ELSE star_from(prog, t, pc, p, caps, k - 1)

backtrack(prog, t, pc, p, caps) ==
  CASE prog[pc].op = "star" ->
         star_from(prog, t, pc, p, caps, run_length(prog[pc].c, t, p))
    [] prog[pc].op = "class" ->
         IF p <= Len(t) /\ in_class(prog[pc].c, t[p])
         THEN backtrack(prog, t, pc + 1, p + 1, caps) ELSE NoMatch
    [] prog[pc].op = "char" ->
         IF p <= Len(t) /\ t[p] = prog[pc].c
         THEN backtrack(prog, t, pc + 1, p + 1, caps) ELSE NoMatch
    [] prog[pc].op = "split" ->
         LET first == backtrack(prog, t, prog[pc].x, p, caps)
         IN  IF first.ok THEN first ELSE backtrack(prog, t, prog[pc].y, p, caps)
    [] prog[pc].op = "save" ->
         backtrack(prog, t, pc + 1, p, [caps EXCEPT ![prog[pc].x] = p])
    [] prog[pc].op = "jmp" -> backtrack(prog, t, prog[pc].x, p, caps)
    [] prog[pc].op = "bol" ->
         IF p = 1 \/ t[p - 1] = "\n"
         THEN backtrack(prog, t, pc + 1, p, caps) ELSE NoMatch
    [] prog[pc].op = "eol" ->
         IF p = Len(t) + 1 \/ t[p] = "\n"
         THEN backtrack(prog, t, pc + 1, p, caps) ELSE NoMatch
    [] prog[pc].op = "match" ->
         [ok |-> TRUE, caps |-> caps, start |-> 0, end |-> p]

\* the match of prog that starts at position p of t, if there is one
match_at(prog, t, p) == [backtrack(prog, t, 1, p, NoCaptures) EXCEPT !.start = p]

\* Regex::captures: the leftmost match of prog in t from position p on
captures(prog, t, p) ==
  LET starts == {q \in p..(Len(t) + 1) : match_at(prog, t, q).ok}
  IN  IF starts = {} THEN NoMatch ELSE match_at(prog, t, Min(starts))

\* Regex::captures_iter: the successive leftmost matches of prog in t from
\* position p on, each search starting where the last match ended (no
\* expression of parse_help matches the empty string)
RECURSIVE captures_iter(_, _, _)
captures_iter(prog, t, p) ==
  LET m == captures(prog, t, p)
  IN  IF m.ok THEN <<m>> \o captures_iter(prog, t, m.end) ELSE << >>

\* Captures::get(n) of the match m in t, as a string
cap_get(t, m, n) ==
  IF m.caps[2 * n - 1] # 0 /\ m.caps[2 * n] # 0
  THEN Some(SubSeq(t, m.caps[2 * n - 1], m.caps[2 * n] - 1))
  ELSE None

\* Option::or
or(a, b) == IF is_some(a) THEN a ELSE b

(***************************************************************************)
(* parser.rs: extract_choices                                              *)
(***************************************************************************)
\* str::split(','): the pieces between the commas, empty pieces included
RECURSIVE split_comma(_)
split_comma(s) ==
  LET c == find_char(s, 1, ",")
  IN  IF c > Len(s) THEN <<s>>
      ELSE <<SubSeq(s, 1, c - 1)>> \o split_comma(SubSeq(s, c + 1, Len(s)))

\* trim_and_filter, without the filter
RECURSIVE trim_and_filter_keeps_empty(_)
trim_and_filter_keeps_empty(pieces) ==
  IF Len(pieces) = 0 THEN << >>
  ELSE <<trim(pieces[1])>> \o trim_and_filter_keeps_empty(Tail(pieces))

\* .map(|s| s.trim().to_string()).filter(|s| !s.is_empty()).collect()
RECURSIVE trim_and_filter(_)
trim_and_filter(pieces) ==
  IF Len(pieces) = 0 THEN << >>
  ELSE (IF is_empty(trim(pieces[1])) THEN << >> ELSE <<trim(pieces[1])>>)
       \o trim_and_filter(Tail(pieces))

\* choices_pattern.replace(description, ""): the first match cut out
replace_first(description, m) ==
  IF m.ok
  THEN SubSeq(description, 1, m.start - 1)
       \o SubSeq(description, m.end, Len(description))
  ELSE description

\* the letters in lower case
lower_case(s) ==
  LET capitals == <<"A", "B", "C", "D", "E", "F", "G", "H", "I", "J", "K",
                    "L", "M", "N", "O", "P", "Q", "R", "S", "T", "U", "V",
                    "W", "X", "Y", "Z">>
      small == <<"a", "b", "c", "d", "e", "f", "g", "h", "i", "j", "k",
                 "l", "m", "n", "o", "p", "q", "r", "s", "t", "u", "v",
                 "w", "x", "y", "z">>
  IN  [i \in 1..Len(s) |->
         IF \E k \in 1..26 : capitals[k] = s[i]
         THEN small[CHOOSE k \in 1..26 : capitals[k] = s[i]]
         ELSE s[i]]

\* extract_choices, with a pattern that ignores the case of the letters
extract_choices_ignoring_case(description) ==
  LET cap == captures(choices_pattern, lower_case(description), 1)
      choices == trim_and_filter(split_comma(cap_get(description, cap, 1)[1]))
      clean_desc == trim(replace_first(description, cap))
  IN  IF cap.ok /\ ~(Len(choices) = 0)
      THEN [description |-> clean_desc, choices |-> Some(choices)]
      ELSE [description |-> description, choices |-> None]

\* extract_choices: the cleaned description and Some(choices) when the
\* pattern matches and a non-empty entry remains, else the description as
\* it is and None
extract_choices(description) ==
  LET cap == captures(choices_pattern, description, 1)
      choices == trim_and_filter(split_comma(cap_get(description, cap, 1)[1]))
      clean_desc == trim(replace_first(description, cap))
  IN  IF cap.ok /\ ~(Len(choices) = 0)
      THEN [description |-> clean_desc, choices |-> Some(choices)]
      ELSE [description |-> description, choices |-> None]

(***************************************************************************)
(* parser.rs: parse_help                                                   *)
(***************************************************************************)
\* cap.get(n).map(|m| m.as_str().trim().to_string()).unwrap_or_default()
raw_description(input, cap, n) ==
  IF is_some(cap_get(input, cap, n)) THEN trim(cap_get(input, cap, n)[1])
  ELSE << >>

\* cap.get(2).map(|m| m.as_str().chars().next().unwrap())
short_of(input, cap) ==
  IF is_some(cap_get(input, cap, 2)) THEN Some(cap_get(input, cap, 2)[1][1])
  ELSE None

\* main_candidate, with takes_value from the value_hint alone
main_candidate_hint_only(input, cap) ==
  LET short == short_of(input, cap)
      long == cap_get(input, cap, 3)
      value_hint == or(cap_get(input, cap, 4), cap_get(input, cap, 5))
      ec == extract_choices(raw_description(input, cap, 6))
  IN  IF is_some(short) \/ is_some(long)
      THEN <<CliOption_new(short, long, ec.description,
                           is_some(value_hint), value_hint, ec.choices)>>
      ELSE << >>

\* the body of the loop over the matches of pattern: the option of one
\* match, if its short or its long group matched
main_candidate(input, cap) ==
  LET short == short_of(input, cap)
      long == cap_get(input, cap, 3)
      value_hint == or(cap_get(input, cap, 4), cap_get(input, cap, 5))
      ec == extract_choices(raw_description(input, cap, 6))
  IN  IF is_some(short) \/ is_some(long)
      THEN <<CliOption_new(short, long, ec.description,
                           is_some(value_hint) \/ is_some(ec.choices),
                           value_hint, ec.choices)>>
      ELSE << >>

\* the body of the loop over the matches of simple_pattern
simple_candidate(input, cap) ==
  LET short == short_of(input, cap)
      ec == extract_choices(raw_description(input, cap, 3))
  IN  IF is_some(short)
      THEN <<CliOption_new(short, None, ec.description,
                           is_some(ec.choices), None, ec.choices)>>
      ELSE << >>

\* the body of the loop over the matches of long_only_pattern
long_only_candidate(input, cap) ==
  LET long == cap_get(input, cap, 1)
      value_hint == or(cap_get(input, cap, 2), cap_get(input, cap, 3))
      ec == extract_choices(raw_description(input, cap, 4))
  IN  IF is_some(long)
      THEN <<CliOption_new(None, long, ec.description,
                           is_some(value_hint) \/ is_some(ec.choices),
                           value_hint, ec.choices)>>
      ELSE << >>

\* the three loops of parse_help: the options pushed for the matches caps
RECURSIVE main_loop(_, _)
main_loop(input, caps) ==
  IF Len(caps) = 0 THEN << >>
  ELSE main_candidate(input, caps[1]) \o main_loop(input, Tail(caps))

RECURSIVE simple_loop(_, _)
simple_loop(input, caps) ==
  IF Len(caps) = 0 THEN << >>
  ELSE simple_candidate(input, caps[1]) \o simple_loop(input, Tail(caps))

RECURSIVE long_only_loop(_, _)
long_only_loop(input, caps) ==
  IF Len(caps) = 0 THEN << >>
  ELSE long_only_candidate(input, caps[1]) \o long_only_loop(input, Tail(caps))

\* format!("{:?}", Option<char>)
debug_short(short) ==
  IF is_some(short) THEN <<"S", "o", "m", "e", "(", "'", short[1], "'", ")">>
  ELSE <<"N", "o", "n", "e">>

\* format!("{:?}", Option<String>), for a name of [\w-] characters
debug_long(long) ==
  IF is_some(long)
  THEN <<"S", "o", "m", "e", "(", "\"">> \o long[1] \o <<"\"", ")">>
  ELSE <<"N", "o", "n", "e">>

\* dedup_key, from the short name alone
dedup_key_short_only(opt) == debug_short(opt.short)

\* the key of the deduplication: format!("{:?}{:?}", opt.short, opt.long)
dedup_key(opt) == debug_short(opt.short) \o debug_long(opt.long)

\* options.retain(|opt| seen.insert(key)): keep the options whose key was
\* not seen before, in order
RECURSIVE retain_unseen(_, _)
retain_unseen(opts, seen) ==
  IF Len(opts) = 0 THEN << >>
  ELSE IF dedup_key(opts[1]) \in seen
  THEN retain_unseen(Tail(opts), seen)
  ELSE <<opts[1]>>
       \o retain_unseen(Tail(opts), seen \cup {dedup_key(opts[1])})

\* the options before the deduplication: the main pattern's candidates, or
\* when there are none the simple pattern's and then the long-only one's
parse_help_candidates(input) ==
  LET primary == main_loop(input, captures_iter(pattern, input, 1))
  IN  IF Len(primary) = 0
      THEN simple_loop(input, captures_iter(simple_pattern, input, 1))
           \o long_only_loop(input, captures_iter(long_only_pattern, input, 1))
      ELSE primary

\* parse_help
parse_help(input) == retain_unseen(parse_help_candidates(input), {})

(***************************************************************************)
(* builder.rs: build_command                                               *)
(***************************************************************************)
\* the loop of build_command over options[from ..]: push every Some(arg)
RECURSIVE build_command_parts(_, _, _)
build_command_parts(parts, opts, from) ==
  IF from > Len(opts) THEN parts
  ELSE build_command_parts(
         IF is_some(to_arg(opts[from]))
         THEN Append(parts, to_arg(opts[from])[1]) ELSE parts,
         opts, from + 1)

\* a build_command that pushes the arguments of the options in the order
\* in which the options were turned on
RECURSIVE build_command_parts_by(_, _, _)
build_command_parts_by(parts, opts, order) ==
  IF Len(order) = 0 THEN parts
  ELSE build_command_parts_by(
         IF is_some(to_arg(opts[order[1] + 1]))
         THEN Append(parts, to_arg(opts[order[1] + 1])[1]) ELSE parts,
         opts, Tail(order))

build_command_toggle_order(base_cmd, opts) ==
  join(build_command_parts_by(base_cmd, opts, toggle_order))

\* a build_command that pushes the option arguments last to first
RECURSIVE build_command_parts_reversed(_, _, _)
build_command_parts_reversed(parts, opts, from) ==
  IF from = 0 THEN parts
  ELSE build_command_parts_reversed(
         IF is_some(to_arg(opts[from]))
         THEN Append(parts, to_arg(opts[from])[1]) ELSE parts,
         opts, from - 1)

build_command_reversed(base_cmd, opts) ==
  join(build_command_parts_reversed(base_cmd, opts, Len(opts)))

\* build_command
build_command(base_cmd, opts) ==
  join(build_command_parts(base_cmd, opts, 1))

(***************************************************************************)
(* The inputs the model draws.                                             *)
(***************************************************************************)
\* a help text with two boolean flags:
\*   |Options:|
\*   |  -a, --all    Show all|
\*   |  -l            Use long format|
HelpLs ==
  <<"O", "p", "t", "i", "o", "n", "s", ":", "\n", " ", " ", "-", "a", ",",
    " ", "-", "-", "a", "l", "l", " ", " ", " ", " ", "S", "h", "o", "w",
    " ", "a", "l", "l", "\n", " ", " ", "-", "l", " ", " ", " ", " ", " ",
    " ", " ", " ", " ", " ", " ", " ", "U", "s", "e", " ", "l", "o", "n",
    "g", " ", "f", "o", "r", "m", "a", "t">>

\* a help text with one choice option:
\*   |--color <WHEN>  Coloring [possible values: auto, always, never]|
HelpColor ==
  <<"-", "-", "c", "o", "l", "o", "r", " ", "<", "W", "H", "E", "N", ">",
    " ", " ", "C", "o", "l", "o", "r", "i", "n", "g", " ", "[", "p", "o",
    "s", "s", "i", "b", "l", "e", " ", "v", "a", "l", "u", "e", "s", ":",
    " ", "a", "u", "t", "o", ",", " ", "a", "l", "w", "a", "y", "s", ",",
    " ", "n", "e", "v", "e", "r", "]">>

\* a help text with a boolean flag, a value-taking option and a choice
\* option (the lines of the tests of parser.rs):
\*   |  -v, --verbose    Enable verbose output|
\*   |  -o, --output <FILE>    Output file|
\*   |      --color <WHEN>    Coloring [possible values: auto, always, never]|
HelpMixed ==
  <<" ", " ", "-", "v", ",", " ", "-", "-", "v", "e", "r", "b", "o", "s",
    "e", " ", " ", " ", " ", "E", "n", "a", "b", "l", "e", " ", "v", "e",
    "r", "b", "o", "s", "e", " ", "o", "u", "t", "p", "u", "t", "\n", " ",
    " ", "-", "o", ",", " ", "-", "-", "o", "u", "t", "p", "u", "t", " ",
    "<", "F", "I", "L", "E", ">", " ", " ", " ", " ", "O", "u", "t", "p",
    "u", "t", " ", "f", "i", "l", "e", "\n", " ", " ", " ", " ", " ", " ",
    "-", "-", "c", "o", "l", "o", "r", " ", "<", "W", "H", "E", "N", ">",
    " ", " ", " ", " ", "C", "o", "l", "o", "r", "i", "n", "g", " ", "[",
    "p", "o", "s", "s", "i", "b", "l", "e", " ", "v", "a", "l", "u", "e",
    "s", ":", " ", "a", "u", "t", "o", ",", " ", "a", "l", "w", "a", "y",
    "s", ",", " ", "n", "e", "v", "e", "r", "]">>

HelpNames == {"ls", "color", "mixed"}

\* a help text without an option: |usage: x|
HelpPlain == <<"u", "s", "a", "g", "e", ":", " ", "x">>

\* the text of what a help invocation wrote; "empty" is no output at all
HelpText(name) ==
  IF name = "ls" THEN HelpLs
  ELSE IF name = "color" THEN HelpColor
  ELSE IF name = "mixed" THEN HelpMixed
  ELSE IF name = "plain" THEN HelpPlain
  ELSE << >>

\* args.command: ["ls"] or ["git", "commit"]
BaseCommands == { << <<"l", "s">> >>, << <<"g", "i", "t">>, <<"c", "o", "m", "m", "i", "t">> >> }

\* the characters typed while a value is edited
TypedChars == {"q"}

\* the key events: KeyCode::Char(c) with or without the CONTROL modifier,
\* and the other key codes
Keys ==
  [code : {"Char"}, ch : {"q", "c", "x", "k", "j", "h", "l", " ", "e", "a"},
   ctrl : BOOLEAN]
  \cup [code : {"Enter", "Esc", "Up", "Down", "Left", "Right", "Backspace",
                "Tab"},
        ch : {""}, ctrl : {FALSE}]

\* no event has been read yet
NoEvent == [code |-> "NoEvent", ch |-> "", ctrl |-> FALSE]

\* an event that is no key event (a resize, the mouse)
NoKey == [code |-> "NoKey", ch |-> "", ctrl |-> FALSE]

IsChar(k, c) == k.code = "Char" /\ k.ch = c

(***************************************************************************)
(* tui.rs: App                                                             *)
(***************************************************************************)
\* the App the state holds
App ==
  [options |-> options, base_command |-> base_command,
   list_state |-> list_state, mode |-> mode, input_buffer |-> input_buffer,
   should_quit |-> should_quit, output_mode |-> output_mode]

\* App::new
App_new(opts, base) ==
  [options |-> opts, base_command |-> base,
   list_state |-> IF ~(Len(opts) = 0) THEN Some(0) ELSE None,
   mode |-> "Normal", input_buffer |-> << >>,
   should_quit |-> FALSE, output_mode |-> None]

\* App::selected_index
selected_index(app) == app.list_state

\* self.options.get(i) is Some
in_range(app, i) == i < Len(app.options)

\* App::selected_option
selected_option(app) ==
  IF is_some(selected_index(app)) /\ in_range(app, selected_index(app)[1])
  THEN Some(app.options[selected_index(app)[1] + 1])
  ELSE None

\* App::move_up
move_up(app) ==
  IF is_some(selected_index(app)) /\ selected_index(app)[1] > 0
  THEN [app EXCEPT !.list_state = Some(selected_index(app)[1] - 1)]
  ELSE app

\* usize::saturating_sub(1)
saturating_sub_1(n) == IF n = 0 THEN 0 ELSE n - 1

\* a move_down that compares with the length, not with the last index
move_down_no_clamp(app) ==
  IF is_some(selected_index(app))
     /\ selected_index(app)[1] < Len(app.options)
  THEN [app EXCEPT !.list_state = Some(selected_index(app)[1] + 1)]
  ELSE app

\* App::move_down
move_down(app) ==
  IF is_some(selected_index(app))
     /\ selected_index(app)[1] < saturating_sub_1(Len(app.options))
  THEN [app EXCEPT !.list_state = Some(selected_index(app)[1] + 1)]
  ELSE app

\* a toggle_selected that asks for input for every value-taking option,
\* the ones with choices too
toggle_selected_input_for_choices(app) ==
  IF is_some(selected_index(app)) /\ in_range(app, selected_index(app)[1])
  THEN LET i == selected_index(app)[1] + 1
           opt == [app.options[i] EXCEPT !.selected = ~app.options[i].selected]
           needs_input == opt.selected /\ opt.takes_value
           flipped == [app EXCEPT !.options[i] = opt]
       IN  IF needs_input
           THEN [flipped EXCEPT !.mode = "Input", !.input_buffer = opt.value]
           ELSE flipped
  ELSE app

\* a toggle_selected that turns every other option off
toggle_selected_clears_others(app) ==
  IF is_some(selected_index(app)) /\ in_range(app, selected_index(app)[1])
  THEN LET i == selected_index(app)[1] + 1
           opt == [app.options[i] EXCEPT !.selected = ~app.options[i].selected]
           needs_input == opt.selected /\ opt.takes_value /\ ~has_choices(opt)
           flipped == [app EXCEPT
                         !.options = [j \in 1..Len(app.options) |->
                                        IF j = i THEN opt
                                        ELSE [app.options[j] EXCEPT
                                                !.selected = FALSE]]]
       IN  IF needs_input
           THEN [flipped EXCEPT !.mode = "Input", !.input_buffer = opt.value]
           ELSE flipped
  ELSE app

\* a toggle_selected that forgets the value and the choice of an option it
\* turns off
toggle_selected_clears_value(app) ==
  IF is_some(selected_index(app)) /\ in_range(app, selected_index(app)[1])
  THEN LET i == selected_index(app)[1] + 1
           on == ~app.options[i].selected
           opt == [app.options[i] EXCEPT
                     !.selected = on,
                     !.value = IF on THEN @ ELSE << >>,
                     !.choice_index = IF on THEN @ ELSE 0]
           needs_input == opt.selected /\ opt.takes_value /\ ~has_choices(opt)
           flipped == [app EXCEPT !.options[i] = opt]
       IN  IF needs_input
           THEN [flipped EXCEPT !.mode = "Input", !.input_buffer = opt.value]
           ELSE flipped
  ELSE app

\* App::toggle_selected
toggle_selected(app) ==
  IF is_some(selected_index(app)) /\ in_range(app, selected_index(app)[1])
  THEN LET i == selected_index(app)[1] + 1
           opt == [app.options[i] EXCEPT !.selected = ~app.options[i].selected]
           needs_input == opt.selected /\ opt.takes_value /\ ~has_choices(opt)
           flipped == [app EXCEPT !.options[i] = opt]
       IN  IF needs_input
           THEN [flipped EXCEPT !.mode = "Input", !.input_buffer = opt.value]
           ELSE flipped
  ELSE app

\* a cycle_choice_next that does not ask whether the option is selected
cycle_choice_next_unlocked(app) ==
  IF is_some(selected_index(app)) /\ in_range(app, selected_index(app)[1])
  THEN LET i == selected_index(app)[1] + 1
       IN  IF has_choices(app.options[i])
           THEN [app EXCEPT !.options[i] = next_choice(app.options[i])]
           ELSE app
  ELSE app

\* App::cycle_choice_next
cycle_choice_next(app) ==
  IF is_some(selected_index(app)) /\ in_range(app, selected_index(app)[1])
  THEN LET i == selected_index(app)[1] + 1
       IN  IF has_choices(app.options[i]) /\ app.options[i].selected
           THEN [app EXCEPT !.options[i] = next_choice(app.options[i])]
           ELSE app
  ELSE app

\* App::cycle_choice_prev
cycle_choice_prev(app) ==
  IF is_some(selected_index(app)) /\ in_range(app, selected_index(app)[1])
  THEN LET i == selected_index(app)[1] + 1
       IN  IF has_choices(app.options[i]) /\ app.options[i].selected
           THEN [app EXCEPT !.options[i] = prev_choice(app.options[i])]
           ELSE app
  ELSE app

\* String::pop
pop(s) == IF Len(s) = 0 THEN s ELSE SubSeq(s, 1, Len(s) - 1)

\* a commit that writes the value and never deselects
commit_input_keeps_selected(app) ==
  LET written ==
        IF is_some(selected_index(app)) /\ in_range(app, selected_index(app)[1])
        THEN [app EXCEPT !.options[selected_index(app)[1] + 1].value =
                           app.input_buffer]
        ELSE app
  IN  [written EXCEPT !.mode = "Normal", !.input_buffer = << >>]

\* the Enter | Esc arm of App::handle_input_key
commit_input(app) ==
  LET new_value == app.input_buffer
      is_empty_value == is_empty(new_value)
      written ==
        IF is_some(selected_index(app)) /\ in_range(app, selected_index(app)[1])
        THEN LET i == selected_index(app)[1] + 1
             IN  [app EXCEPT !.options[i].value = new_value,
                             !.options[i].selected =
                                IF is_empty_value THEN FALSE ELSE @]
        ELSE app
  IN  [written EXCEPT !.mode = "Normal", !.input_buffer = << >>]

\* a handle_input_key whose Esc leaves the edit without writing the buffer
handle_input_key_esc_discards(app, k) ==
  IF k.code = "Enter" THEN commit_input(app)
  ELSE IF k.code = "Esc"
  THEN [app EXCEPT !.mode = "Normal", !.input_buffer = << >>]
  ELSE IF k.code = "Char"
  THEN [app EXCEPT !.input_buffer = Append(app.input_buffer, k.ch)]
  ELSE IF k.code = "Backspace"
  THEN [app EXCEPT !.input_buffer = pop(app.input_buffer)]
  ELSE app

\* a handle_input_key that puts the character typed in front
handle_input_key_inserts_first(app, k) ==
  IF k.code = "Enter" \/ k.code = "Esc" THEN commit_input(app)
  ELSE IF k.code = "Char"
  THEN [app EXCEPT !.input_buffer = <<k.ch>> \o app.input_buffer]
  ELSE IF k.code = "Backspace"
  THEN [app EXCEPT !.input_buffer = pop(app.input_buffer)]
  ELSE app

\* App::handle_input_key
handle_input_key(app, k) ==
  IF k.code = "Enter" \/ k.code = "Esc" THEN commit_input(app)
  ELSE IF k.code = "Char"
  THEN [app EXCEPT !.input_buffer = Append(app.input_buffer, k.ch)]
  ELSE IF k.code = "Backspace"
  THEN [app EXCEPT !.input_buffer = pop(app.input_buffer)]
  ELSE app

\* an edit request that does not ask whether the option is selected
edit_request_ignores_selected(app) ==
  LET should_edit ==
        IF is_some(selected_option(app))
        THEN selected_option(app)[1].takes_value
        ELSE FALSE
      value ==
        IF is_some(selected_option(app)) THEN selected_option(app)[1].value
        ELSE << >>
  IN  IF should_edit
      THEN [app EXCEPT !.mode = "Input", !.input_buffer = value]
      ELSE app

\* the KeyCode::Char('e') arm of run
edit_request(app) ==
  LET should_edit ==
        IF is_some(selected_option(app))
        THEN selected_option(app)[1].takes_value /\ selected_option(app)[1].selected
        ELSE FALSE
      value ==
        IF is_some(selected_option(app)) THEN selected_option(app)[1].value
        ELSE << >>
  IN  IF should_edit
      THEN [app EXCEPT !.mode = "Input", !.input_buffer = value]
      ELSE app

\* App::build_command
App_build_command(app) == build_command(app.base_command, app.options)

(***************************************************************************)
(* The history of the toggles.                                             *)
(***************************************************************************)
\* the indices of order whose option is selected in opts
RECURSIVE still_selected(_, _)
still_selected(order, opts) ==
  IF Len(order) = 0 THEN << >>
  ELSE (IF opts[order[1] + 1].selected THEN <<order[1]>> ELSE << >>)
       \o still_selected(Tail(order), opts)

\* the indices >= i of the options selected in new and not in old
RECURSIVE turned_on(_, _, _)
turned_on(old, new, i) ==
  IF i >= Len(new) THEN << >>
  ELSE (IF new[i + 1].selected /\ ~old[i + 1].selected THEN <<i>> ELSE << >>)
       \o turned_on(old, new, i + 1)

order_after(order, old, new) ==
  still_selected(order, new) \o turned_on(old, new, 0)

(***************************************************************************)
(* tui.rs: run.  A step is one turn of the loop from the blocking read of  *)
(* an event on: the event is handled and, unless it ends the loop, the     *)
(* next draw shows the command assembled from the options.                 *)
(***************************************************************************)
\* the loop goes on with the App a
Continue(k, a) ==
  /\ key' = k
  /\ options' = a.options
  /\ list_state' = a.list_state
  /\ mode' = a.mode
  /\ input_buffer' = a.input_buffer
  /\ should_quit' = a.should_quit
  /\ output_mode' = a.output_mode
  /\ preview' = App_build_command(a)
  /\ toggle_order' = order_after(toggle_order, options, a.options)
  /\ prior' = preview
  /\ UNCHANGED <<help, base_command, session, result, sink, pure_vars, unit_vars>>

\* break Ok(Some((app.build_command(), m))) with app.output_mode set
Emit(k, m) ==
  /\ key' = k
  /\ output_mode' = Some(m)
  /\ result' = Some([command |-> App_build_command(App), mode |-> m])
  /\ session' = "emitted"
  /\ UNCHANGED <<help, base_command, options, list_state, mode, input_buffer,
                 should_quit, preview, toggle_order, prior, sink, pure_vars, unit_vars>>

\* the loop reads an event whatever the mode is
Reading_any_mode(m) == session = "running"

\* run is at the read of an event and the mode is m
Reading(m) == session = "running" /\ mode = m

\* KeyCode::Char('q') | KeyCode::Esc
Quit(k) ==
  /\ Reading("Normal")
  /\ IsChar(k, "q") \/ k.code = "Esc"
  /\ key' = k
  /\ should_quit' = TRUE
  /\ result' = None
  /\ session' = "aborted"
  /\ UNCHANGED <<help, base_command, options, list_state, mode, input_buffer,
                 output_mode, preview, toggle_order, prior, sink, pure_vars, unit_vars>>

\* a copy key that asks for the command to be run
Copy_executes(k) ==
  /\ Reading("Normal")
  /\ IsChar(k, "c") /\ k.ctrl
  /\ Emit(k, "Execute")

\* KeyCode::Char('c') with CONTROL
Copy(k) ==
  /\ Reading("Normal")
  /\ IsChar(k, "c") /\ k.ctrl
  /\ Emit(k, "Clipboard")

\* KeyCode::Char('x') with CONTROL
Execute(k) ==
  /\ Reading("Normal")
  /\ IsChar(k, "x") /\ k.ctrl
  /\ Emit(k, "Execute")

\* KeyCode::Enter
PrintCommand(k) ==
  /\ Reading("Normal")
  /\ k.code = "Enter"
  /\ Emit(k, "Print")

\* KeyCode::Up | KeyCode::Char('k')
MoveUp(k) ==
  /\ Reading("Normal")
  /\ k.code = "Up" \/ IsChar(k, "k")
  /\ Continue(k, move_up(App))

\* KeyCode::Down | KeyCode::Char('j')
MoveDown(k) ==
  /\ Reading("Normal")
  /\ k.code = "Down" \/ IsChar(k, "j")
  /\ Continue(k, move_down(App))

\* KeyCode::Left | KeyCode::Char('h')
CycleChoicePrev(k) ==
  /\ Reading("Normal")
  /\ k.code = "Left" \/ IsChar(k, "h")
  /\ Continue(k, cycle_choice_prev(App))

\* KeyCode::Right | KeyCode::Char('l')
CycleChoiceNext(k) ==
  /\ Reading("Normal")
  /\ k.code = "Right" \/ IsChar(k, "l")
  /\ Continue(k, cycle_choice_next(App))

\* KeyCode::Char(' ')
ToggleSelected(k) ==
  /\ Reading("Normal")
  /\ IsChar(k, " ")
  /\ Continue(k, toggle_selected(App))

\* KeyCode::Char('e')
EditRequest(k) ==
  /\ Reading("Normal")
  /\ IsChar(k, "e")
  /\ Continue(k, edit_request(App))

\* the keys the earlier arms of the Normal match leave to  _ => {}
NormalOther(k) ==
  /\ Reading("Normal")
  /\ \/ k.code \in {"Backspace", "Tab"}
     \/ IsChar(k, "a")
     \/ (IsChar(k, "c") \/ IsChar(k, "x")) /\ ~k.ctrl
  /\ Continue(k, App)

\* Mode::Input: app.handle_input_key(key.code); the characters typed are
\* drawn from TypedChars and the buffer is kept within MaxBuf
InputKey(k) ==
  /\ Reading("Input")
  /\ k.code = "Char" => k.ch \in TypedChars /\ Len(input_buffer) < MaxBuf
  /\ Continue(k, handle_input_key(App, k))

\* an event that is no Event::Key: the loop draws again
NoKeyEvent ==
  /\ session = "running"
  /\ Continue(NoKey, App)

\* main: Some((command, mode)) => output::handle_output(&command, mode),
\* which fails when the clipboard does or when the command run exits with
\* a status that is not zero; printing does not fail
HandleOutput(ok) ==
  /\ session = "emitted"
  /\ result[1].mode = "Print" => ok
  /\ sink' = result
  /\ session' = IF ok THEN "exited" ELSE "failed"
  /\ UNCHANGED <<help, base_command, options, list_state, mode, input_buffer,
                 should_quit, output_mode, key, preview, result, toggle_order,
                 prior, pure_vars, unit_vars>>

\* main: None => {}
QuitWithoutOutput ==
  /\ session = "aborted"
  /\ session' = "exited"
  /\ UNCHANGED <<help, base_command, options, list_state, mode, input_buffer,
                 should_quit, output_mode, key, preview, result, toggle_order,
                 prior, sink, pure_vars, unit_vars>>

Init ==
  /\ help \in HelpNames
  /\ base_command \in BaseCommands
  /\ options = parse_help(HelpText(help))
  /\ ~(Len(options) = 0)
  /\ list_state = App_new(options, base_command).list_state
  /\ mode = App_new(options, base_command).mode
  /\ input_buffer = App_new(options, base_command).input_buffer
  /\ should_quit = App_new(options, base_command).should_quit
  /\ output_mode = App_new(options, base_command).output_mode
  /\ key = NoEvent
  /\ toggle_order = << >>
  /\ preview = build_command(base_command, options)
  /\ prior = preview
  /\ session = "running"
  /\ result = None
  /\ sink = None
  /\ p_pc = "off" /\ p_base = << >> /\ p_opts = << >>
  /\ p_args = << >> /\ p_cmd = << >>
  /\ u_pc = "off" /\ u_in = << >> /\ u_out = << >>

Next ==
  \/ \E k \in Keys : Quit(k)
  \/ \E k \in Keys : Copy(k)
  \/ \E k \in Keys : Execute(k)
  \/ \E k \in Keys : PrintCommand(k)
  \/ \E k \in Keys : MoveUp(k)
  \/ \E k \in Keys : MoveDown(k)
  \/ \E k \in Keys : CycleChoicePrev(k)
  \/ \E k \in Keys : CycleChoiceNext(k)
  \/ \E k \in Keys : ToggleSelected(k)
  \/ \E k \in Keys : EditRequest(k)
  \/ \E k \in Keys : NormalOther(k)
  \/ \E k \in Keys : InputKey(k)
  \/ NoKeyEvent
  \/ \E ok \in BOOLEAN : HandleOutput(ok)
  \/ QuitWithoutOutput

Spec == Init /\ [][Next]_vars

(***************************************************************************)
(* The pure functions of option.rs and builder.rs on drawn inputs: a list  *)
(* of at most MaxOpts options, each with a short name, a long name or      *)
(* both (the extractor keeps no option without a name) and with every      *)
(* combination of takes_value, choices, choice_index, value and selected   *)
(* in which choice_index is an index of choices, and the base tokens.      *)
(***************************************************************************)
\* the three kinds of names: short only, long only, both
FlagKinds ==
  << [short |-> Some("v"), long |-> None],
     [short |-> None, long |-> Some(<<"v", "e", "r", "b", "o", "s", "e">>)],
     [short |-> Some("a"), long |-> Some(<<"a", "l", "l">>)] >>

\* the names of the option at position i of a list whose first option is
\* of kind first
FlagAt(first, i) == FlagKinds[((first + i - 2) % Len(FlagKinds)) + 1]

PureChoiceList == << <<"a", "u", "t", "o">>, <<"n", "o">> >>

PureChoices ==
  {[choices |-> None, choice_index |-> 0]}
  \cup {[choices |-> Some(PureChoiceList), choice_index |-> i] :
          i \in 0..(Len(PureChoiceList) - 1)}

PureValues == {<< >>, <<"a">>}

PureFields ==
  [takes_value : BOOLEAN, selected : BOOLEAN, value : PureValues,
   choice : PureChoices]

PureOption(flag, f) ==
  [CliOption_new(flag.short, flag.long, <<"d">>, f.takes_value, None,
                 f.choice.choices)
   EXCEPT !.selected = f.selected, !.value = f.value,
          !.choice_index = f.choice.choice_index]

\* the lists of at most max options
PureOptionLists(max) ==
  UNION {{[i \in 1..n |-> PureOption(FlagAt(first, i), fs[i])] :
            fs \in [1..n -> PureFields], first \in 1..Len(FlagKinds)} :
         n \in 0..max}

InitPure ==
  /\ p_pc = "input"
  /\ p_base \in BaseCommands
  /\ p_opts \in PureOptionLists(MaxOpts)
  /\ p_args = << >>
  /\ p_cmd = << >>
  /\ help = "ls" /\ base_command = << >> /\ options = << >>
  /\ list_state = None /\ mode = "Normal" /\ input_buffer = << >>
  /\ should_quit = FALSE /\ output_mode = None /\ key = NoKey
  /\ preview = << >> /\ session = "off" /\ result = None
  /\ toggle_order = << >> /\ prior = << >> /\ sink = None
  /\ u_pc = "off" /\ u_in = << >> /\ u_out = << >>

\* to_arg of every option drawn, and build_command of the base tokens and
\* the options drawn
PureApply ==
  /\ p_pc = "input"
  /\ p_args' = [i \in 1..Len(p_opts) |-> to_arg(p_opts[i])]
  /\ p_cmd' = build_command(p_base, p_opts)
  /\ p_pc' = "done"
  /\ UNCHANGED <<p_base, p_opts, app_vars, unit_vars>>

NextPure == PureApply

SpecPure == InitPure /\ [][NextPure]_vars

(***************************************************************************)
(* One call of App::handle_input_key: an App in Input mode over the        *)
(* options of the mixed help text, with the cursor on any of them, that    *)
(* option selected or not, any edit buffer of at most MaxBuf characters,   *)
(* and any key.                                                            *)
(***************************************************************************)
\* the characters of the edit buffers drawn
BufferChars == {"q", "a"}

\* the strings over cs of at most n characters
Strings(cs, n) == UNION {[1..k -> cs] : k \in 0..n}

\* the App with the cursor on option c, selected as sel says, and the edit
\* buffer buf
InputApp(c, sel, buf) ==
  [App_new(parse_help(HelpText("mixed")), << <<"l", "s">> >>)
   EXCEPT !.list_state = Some(c), !.mode = "Input", !.input_buffer = buf,
          !.options[c + 1].selected = sel]

InputApps(n) ==
  {InputApp(c, sel, buf) :
     c \in 0..2, sel \in BOOLEAN, buf \in Strings(BufferChars, n)}

EngineOff ==
  /\ help = "ls" /\ base_command = << >> /\ options = << >>
  /\ list_state = None /\ mode = "Normal" /\ input_buffer = << >>
  /\ should_quit = FALSE /\ output_mode = None /\ key = NoKey
  /\ preview = << >> /\ session = "off" /\ result = None
  /\ toggle_order = << >> /\ prior = << >> /\ sink = None

PureOff ==
  /\ p_pc = "off" /\ p_base = << >> /\ p_opts = << >>
  /\ p_args = << >> /\ p_cmd = << >>

InitInput ==
  /\ u_pc = "input"
  /\ u_in \in [kind : {"key"}, app : InputApps(MaxBuf), key : Keys]
  /\ u_out = << >>
  /\ EngineOff
  /\ PureOff

\* app.handle_input_key(key.code)
InputApply ==
  /\ u_pc = "input"
  /\ u_in.kind = "key"
  /\ u_out' = handle_input_key(u_in.app, u_in.key)
  /\ u_pc' = "done"
  /\ UNCHANGED <<u_in, app_vars, pure_vars>>

NextInput == InputApply

SpecInput == InitInput /\ [][NextInput]_vars

(***************************************************************************)
(* One call of CliOption::next_choice and of CliOption::prev_choice, and   *)
(* one of each after the other: an option without choices, with an empty   *)
(* list or with a list of at most MaxChoices choices, at any index of it.  *)
(***************************************************************************)
\* the i-th choice: i times the character c
ChoiceName(i) == [j \in 1..i |-> "c"]

ChoiceLists(n) == {[i \in 1..k |-> ChoiceName(i)] : k \in 0..n}

ChoiceStates(n) ==
  {[choices |-> None, choice_index |-> 0]}
  \cup UNION {{[choices |-> Some(cs), choice_index |-> i] :
                 i \in 0..(IF Len(cs) = 0 THEN 0 ELSE Len(cs) - 1)} :
              cs \in ChoiceLists(n)}

ChoiceOptions(n) ==
  {PureOption(FlagKinds[f],
              [takes_value |-> tv, selected |-> sel, value |-> v, choice |-> c]) :
     f \in 1..Len(FlagKinds), tv \in BOOLEAN, sel \in BOOLEAN,
     v \in PureValues, c \in ChoiceStates(n)}

InitChoice ==
  /\ u_pc = "input"
  /\ u_in \in [kind : {"choice"}, opt : ChoiceOptions(MaxChoices)]
  /\ u_out = << >>
  /\ EngineOff
  /\ PureOff

\* opt.next_choice(), opt.prev_choice(), and each followed by the other
ChoiceApply ==
  /\ u_pc = "input"
  /\ u_in.kind = "choice"
  /\ u_out' = [next |-> next_choice(u_in.opt),
               prev |-> prev_choice(u_in.opt),
               next_prev |-> prev_choice(next_choice(u_in.opt)),
               prev_next |-> next_choice(prev_choice(u_in.opt))]
  /\ u_pc' = "done"
  /\ UNCHANGED <<u_in, app_vars, pure_vars>>

NextChoice == ChoiceApply

SpecChoice == InitChoice /\ [][NextChoice]_vars

(***************************************************************************)
(* parse_help, pass by pass: the specification of one call.  A help text   *)
(* of at most MaxLines lines is drawn from HelpLines; u_out holds the      *)
(* passes made so far, the vector options, and from the deduplication on   *)
(* the vector as it was before it.                                         *)
(***************************************************************************)
\* lines of the formats the comment of parse_help lists, a line twice with
\* two descriptions, and a line that the main pattern matches without a
\* flag
HelpLines ==
  << <<"-", "a", ",", " ", "-", "-", "a", "l", "l", " ", " ", "A">>,
     <<"-", "a", ",", " ", "-", "-", "a", "l", "l", " ", " ", "B">>,
     <<"-", "o", ",", " ", "-", "-", "o", "u", "t", " ", "<", "F", "I", "L",
       "E", ">", " ", " ", "O">>,
     <<"-", "v", " ", " ", "V">>,
     <<"-", "-", "c", "o", "l", "o", "r", " ", "<", "W", ">", " ", " ", "C",
       " ", "[", "v", "a", "l", "u", "e", "s", ":", " ", "x", ",", " ", "y",
       "]">>,
     <<"-", "m", " ", " ", "M", " ", "[", "v", "a", "l", "u", "e", "s", ":",
       " ", "x", ",", " ", "y", "]">>,
     <<"-", "-", "d", "r", "y", " ", " ", "D">>,
     <<"-", "n", "=", "5", " ", " ", "N">>,
     <<" ", " ", "x">> >>

\* the text of the lines ls of HelpLines, one below the other
RECURSIVE help_text(_)
help_text(ls) ==
  IF Len(ls) = 0 THEN << >>
  ELSE IF Len(ls) = 1 THEN HelpLines[ls[1]]
  ELSE HelpLines[ls[1]] \o <<"\n">> \o help_text(Tail(ls))

\* the help texts of at most n lines
ParseInputs(n) ==
  {[kind |-> "parse", lines |-> ls, input |-> help_text(ls)] :
     ls \in UNION {[1..k -> 1..Len(HelpLines)] : k \in 0..n}}

InitParse ==
  /\ u_pc = "input"
  /\ u_in \in ParseInputs(MaxLines)
  /\ u_out = [passes |-> << >>, options |-> << >>, candidates |-> << >>]
  /\ EngineOff
  /\ PureOff

\* ParsePrimary, going on to the fallback passes whatever it found
ParsePrimary_always_fallback ==
  /\ u_pc = "input"
  /\ u_in.kind = "parse"
  /\ u_out' = [u_out EXCEPT
                 !.passes = Append(@, "primary"),
                 !.options = main_loop(u_in.input,
                                       captures_iter(pattern, u_in.input, 1))]
  /\ u_pc' = "simple"
  /\ UNCHANGED <<u_in, app_vars, pure_vars>>

\* for cap in pattern.captures_iter(input) { .. }, and the test of
\* options.is_empty() after it
ParsePrimary ==
  /\ u_pc = "input"
  /\ u_in.kind = "parse"
  /\ LET found == main_loop(u_in.input, captures_iter(pattern, u_in.input, 1))
     IN  /\ u_out' = [u_out EXCEPT !.passes = Append(@, "primary"),
                                   !.options = found]
         /\ u_pc' = IF is_empty(found) THEN "simple" ELSE "dedup"
  /\ UNCHANGED <<u_in, app_vars, pure_vars>>

\* for cap in simple_pattern.captures_iter(input) { .. }
ParseSimple ==
  /\ u_pc = "simple"
  /\ u_out' = [u_out EXCEPT
                 !.passes = Append(@, "simple"),
                 !.options = @ \o simple_loop(u_in.input,
                                   captures_iter(simple_pattern, u_in.input, 1))]
  /\ u_pc' = "long_only"
  /\ UNCHANGED <<u_in, app_vars, pure_vars>>

\* for cap in long_only_pattern.captures_iter(input) { .. }
ParseLongOnly ==
  /\ u_pc = "long_only"
  /\ u_out' = [u_out EXCEPT
                 !.passes = Append(@, "long_only"),
                 !.options = @ \o long_only_loop(u_in.input,
                                   captures_iter(long_only_pattern, u_in.input, 1))]
  /\ u_pc' = "dedup"
  /\ UNCHANGED <<u_in, app_vars, pure_vars>>

\* options.retain(..); options
ParseDedup ==
  /\ u_pc = "dedup"
  /\ u_out' = [u_out EXCEPT !.candidates = u_out.options,
                            !.options = retain_unseen(u_out.options, {})]
  /\ u_pc' = "done"
  /\ UNCHANGED <<u_in, app_vars, pure_vars>>

NextParse ==
  \/ ParsePrimary
  \/ ParseSimple
  \/ ParseLongOnly
  \/ ParseDedup

SpecParse == InitParse /\ [][NextParse]_vars

(***************************************************************************)
(* extract_choices: the specification of one call.  The description drawn  *)
(* is a prefix, the head of a bracketed enumeration, at most MaxEntries    *)
(* entries with commas between them, "]" and a suffix, or a prefix and a   *)
(* suffix alone.                                                           *)
(***************************************************************************)
\* heads in the two forms of the comment of extract_choices, in the
\* singular, with more whitespace, with capital letters, and with a
\* parenthesis
EnumHeads ==
  << <<"[", "p", "o", "s", "s", "i", "b", "l", "e", " ", "v", "a", "l", "u",
       "e", "s", ":">>,
     <<"[", "v", "a", "l", "u", "e", "s", ":">>,
     <<"[", "v", "a", "l", "u", "e", ":">>,
     <<"[", "p", "o", "s", "s", "i", "b", "l", "e", " ", " ", "v", "a", "l",
       "u", "e", "s", ":", " ">>,
     <<"[", "P", "o", "s", "s", "i", "b", "l", "e", " ", "V", "a", "l", "u",
       "e", "s", ":">>,
     <<"[", "V", "A", "L", "U", "E", "S", ":">>,
     <<"(", "v", "a", "l", "u", "e", "s", ":">> >>

\* the entries of an enumeration as they stand between the commas, each
\* with what is left of it without the whitespace around it
EnumEntries ==
  << [raw |-> <<"a">>, clean |-> <<"a">>],
     [raw |-> <<" ", "b", " ">>, clean |-> <<"b">>],
     [raw |-> << >>, clean |-> << >>],
     [raw |-> <<" ">>, clean |-> << >>] >>

EnumPrefixes == {<< >>, <<"C", " ">>}

EnumSuffixes == {<< >>, <<" ", "z">>}

\* the raw entries with a comma between two neighbours
RECURSIVE join_comma(_)
join_comma(entries) ==
  IF Len(entries) = 0 THEN << >>
  ELSE IF Len(entries) = 1 THEN entries[1].raw
  ELSE entries[1].raw \o <<",">> \o join_comma(Tail(entries))

\* the description with the enumeration of head h, or without one (h = 0)
describe(prefix, h, entries, suffix) ==
  IF h = 0 THEN prefix \o suffix
  ELSE prefix \o EnumHeads[h] \o join_comma(entries) \o <<"]">> \o suffix

ExtractInput(prefix, h, entries, suffix) ==
  [kind |-> "extract", prefix |-> prefix, head |-> h, entries |-> entries,
   suffix |-> suffix, description |-> describe(prefix, h, entries, suffix)]

\* the description of test_with_choices
ColoringInput ==
  ExtractInput(<<"C", "o", "l", "o", "r", "i", "n", "g", " ">>, 1,
               << [raw |-> <<" ", "a", "u", "t", "o">>,
                   clean |-> <<"a", "u", "t", "o">>],
                  [raw |-> <<" ", "a", "l", "w", "a", "y", "s">>,
                   clean |-> <<"a", "l", "w", "a", "y", "s">>],
                  [raw |-> <<" ", "n", "e", "v", "e", "r">>,
                   clean |-> <<"n", "e", "v", "e", "r">>] >>,
               << >>)

ExtractInputs(n) ==
  {ExtractInput(prefix, h, [i \in 1..Len(es) |-> EnumEntries[es[i]]], suffix) :
     prefix \in EnumPrefixes, h \in 0..Len(EnumHeads),
     es \in UNION {[1..k -> 1..Len(EnumEntries)] : k \in 0..n},
     suffix \in EnumSuffixes}
  \cup {ColoringInput}

InitExtract ==
  /\ u_pc = "input"
  /\ u_in \in ExtractInputs(MaxEntries)
  /\ u_out = << >>
  /\ EngineOff
  /\ PureOff

\* extract_choices(&raw_description)
ExtractApply ==
  /\ u_pc = "input"
  /\ u_in.kind = "extract"
  /\ u_out' = extract_choices(u_in.description)
  /\ u_pc' = "done"
  /\ UNCHANGED <<u_in, app_vars, pure_vars>>

NextExtract == ExtractApply

SpecExtract == InitExtract /\ [][NextExtract]_vars

(***************************************************************************)
(* main.rs: get_help_text and main up to the call of tui::run, step by     *)
(* step.  u_in is the run's environment: args.command, args.debug and,     *)
(* for the invocation with --help and the one with -h, whether the         *)
(* program can be started and what it then writes to its two streams       *)
(* (the name of a help text).  u_out holds the invocations made, the       *)
(* streams examined, the help text got, the options parsed, what was       *)
(* reported on the error stream and the exit code.                         *)
(***************************************************************************)
StreamTexts == {"empty", "plain", "ls", "color"}

\* Command::output(): Err, or the two streams of the program
Invocations ==
  {[spawned |-> FALSE, stdout |-> "empty", stderr |-> "empty"]}
  \cup [spawned : {TRUE}, stdout : StreamTexts, stderr : StreamTexts]

InitMain ==
  /\ u_pc = "input"
  /\ u_in \in [kind : {"main"}, command : {<< <<"l", "s">> >>},
               debug : BOOLEAN, help : Invocations, h : Invocations]
  /\ u_out = [invoked |-> << >>, examined |-> << >>, help_text |-> None,
              options |-> << >>, reported |-> << >>, exit |-> None]
  /\ EngineOff
  /\ PureOff

\* get_help_text after an invocation inv with the flag: None at once when
\* the program was not started, else the first of stdout and stderr that
\* is not empty, else what next says
AfterInvocation(flag, inv, found, none, next) ==
  /\ u_out' = [u_out EXCEPT
                 !.invoked = Append(@, flag),
                 !.examined =
                    @ \o (IF ~inv.spawned THEN << >>
                          ELSE IF ~is_empty(HelpText(inv.stdout))
                          THEN <<inv.stdout>>
                          ELSE <<inv.stdout, inv.stderr>>),
                 !.help_text =
                    IF ~inv.spawned THEN None
                    ELSE IF ~is_empty(HelpText(inv.stdout))
                    THEN Some(inv.stdout)
                    ELSE IF ~is_empty(HelpText(inv.stderr))
                    THEN Some(inv.stderr)
                    ELSE None]
  /\ u_pc' = IF ~inv.spawned THEN none
             ELSE IF is_empty(HelpText(inv.stdout))
                     /\ is_empty(HelpText(inv.stderr))
             THEN next
             ELSE found
  /\ UNCHANGED <<u_in, app_vars, pure_vars>>

\* InvokeHelp, looking at the standard error first
InvokeHelp_stderr_first ==
  /\ u_pc = "input"
  /\ u_in.kind = "main"
  /\ AfterInvocation("--help",
                     [u_in.help EXCEPT !.stdout = u_in.help.stderr,
                                       !.stderr = u_in.help.stdout],
                     "parse", "unavailable", "h")

\* get_help_text: the invocation with --help
InvokeHelp ==
  /\ u_pc = "input"
  /\ u_in.kind = "main"
  /\ AfterInvocation("--help", u_in.help, "parse", "unavailable", "h")

\* get_help_text: the invocation with -h
InvokeH ==
  /\ u_pc = "h"
  /\ AfterInvocation("-h", u_in.h, "parse", "unavailable", "unavailable")

\* main: None => { eprintln!("Could not get help for ..."); exit(1) }
HelpUnavailable ==
  /\ u_pc = "unavailable"
  /\ u_out' = [u_out EXCEPT !.reported = Append(@, "Could not get help"),
                            !.exit = Some(1)]
  /\ u_pc' = "exited"
  /\ UNCHANGED <<u_in, app_vars, pure_vars>>

\* main: let options = parser::parse_help(&help_text)
ParseHelpText ==
  /\ u_pc = "parse"
  /\ u_out' = [u_out EXCEPT
                 !.options = parse_help(HelpText(u_out.help_text[1]))]
  /\ u_pc' = "parsed"
  /\ UNCHANGED <<u_in, app_vars, pure_vars>>

\* main: if args.debug { .. return Ok(()) }
DebugDump ==
  /\ u_pc = "parsed"
  /\ u_in.debug
  /\ u_out' = [u_out EXCEPT !.reported = Append(@, "debug dump"),
                            !.exit = Some(0)]
  /\ u_pc' = "exited"
  /\ UNCHANGED <<u_in, app_vars, pure_vars>>

\* main: if options.is_empty() { eprintln!(..); eprintln!(..); exit(1) }
NoOptionsParsed ==
  /\ u_pc = "parsed"
  /\ ~u_in.debug
  /\ is_empty(u_out.options)
  /\ u_out' = [u_out EXCEPT
                 !.reported = Append(@, "Could not parse any options"),
                 !.exit = Some(1)]
  /\ u_pc' = "exited"
  /\ UNCHANGED <<u_in, app_vars, pure_vars>>

\* StartEngine, whether or not an option was parsed
StartEngine_unguarded ==
  /\ u_pc = "parsed"
  /\ ~u_in.debug
  /\ help' = u_out.help_text[1]
  /\ base_command' = u_in.command
  /\ options' = u_out.options
  /\ list_state' = App_new(u_out.options, u_in.command).list_state
  /\ mode' = App_new(u_out.options, u_in.command).mode
  /\ input_buffer' = App_new(u_out.options, u_in.command).input_buffer
  /\ should_quit' = App_new(u_out.options, u_in.command).should_quit
  /\ output_mode' = App_new(u_out.options, u_in.command).output_mode
  /\ key' = NoEvent
  /\ toggle_order' = << >>
  /\ preview' = build_command(u_in.command, u_out.options)
  /\ prior' = build_command(u_in.command, u_out.options)
  /\ session' = "running"
  /\ u_pc' = "engine"
  /\ UNCHANGED <<result, sink, u_in, u_out, pure_vars>>

\* main: tui::run(options, args.command), up to the first draw
StartEngine ==
  /\ u_pc = "parsed"
  /\ ~u_in.debug
  /\ ~is_empty(u_out.options)
  /\ help' = u_out.help_text[1]
  /\ base_command' = u_in.command
  /\ options' = u_out.options
  /\ list_state' = App_new(u_out.options, u_in.command).list_state
  /\ mode' = App_new(u_out.options, u_in.command).mode
  /\ input_buffer' = App_new(u_out.options, u_in.command).input_buffer
  /\ should_quit' = App_new(u_out.options, u_in.command).should_quit
  /\ output_mode' = App_new(u_out.options, u_in.command).output_mode
  /\ key' = NoEvent
  /\ toggle_order' = << >>
  /\ preview' = build_command(u_in.command, u_out.options)
  /\ prior' = build_command(u_in.command, u_out.options)
  /\ session' = "running"
  /\ u_pc' = "engine"
  /\ UNCHANGED <<result, sink, u_in, u_out, pure_vars>>

NextMain ==
  \/ InvokeHelp
  \/ InvokeH
  \/ HelpUnavailable
  \/ ParseHelpText
  \/ DebugDump
  \/ NoOptionsParsed
  \/ StartEngine

SpecMain == InitMain /\ [][NextMain]_vars

(***************************************************************************)
(* output.rs: handle_output.  env is what the platform does: whether the   *)
(* clipboard can be opened and set, whether the shell can be started, and  *)
(* the ExitStatus of the command that Command::status() waits for, an      *)
(* exit code or none when a signal ended the command.  The result is       *)
(* Ok(()) or the error, with what was printed, copied and executed.        *)
(***************************************************************************)
NoEffect ==
  [ok |-> TRUE, error |-> << >>, stdout |-> << >>, stderr |-> << >>,
   clipboard |-> None, executed |-> None]

\* ExitStatus::success
success(status) == status.code = Some(0)

\* handle_output, without the test of the exit status
handle_output_ignores_status(command, m, env) ==
  IF m = "Print"
  THEN [NoEffect EXCEPT !.stdout = <<command>>]
  ELSE IF m = "Clipboard"
  THEN IF ~env.clipboard_new \/ ~env.set_text
       THEN [NoEffect EXCEPT !.ok = FALSE, !.error = <<"clipboard">>]
       ELSE [NoEffect EXCEPT !.clipboard = Some(command),
                             !.stderr = <<"Command copied to clipboard">>]
  ELSE IF ~env.spawn
       THEN [NoEffect EXCEPT !.ok = FALSE, !.error = <<"io">>]
       ELSE [NoEffect EXCEPT !.executed = Some(<<"sh", "-c", command>>)]

\* handle_output
handle_output(command, m, env) ==
  IF m = "Print"
  THEN [NoEffect EXCEPT !.stdout = <<command>>]
  ELSE IF m = "Clipboard"
  THEN IF ~env.clipboard_new
       THEN [NoEffect EXCEPT !.ok = FALSE, !.error = <<"clipboard">>]
       ELSE IF ~env.set_text
       THEN [NoEffect EXCEPT !.ok = FALSE, !.error = <<"clipboard">>]
       ELSE [NoEffect EXCEPT !.clipboard = Some(command),
                             !.stderr = <<"Command copied to clipboard">>]
  ELSE IF ~env.spawn
       THEN [NoEffect EXCEPT !.ok = FALSE, !.error = <<"io">>]
       ELSE IF ~success(env.status)
       THEN [NoEffect EXCEPT
               !.executed = Some(<<"sh", "-c", command>>),
               !.ok = FALSE,
               !.error = <<"Command exited with status", env.status>>]
       ELSE [NoEffect EXCEPT !.executed = Some(<<"sh", "-c", command>>)]

OutputModes == {"Print", "Clipboard", "Execute"}

\* the command strings handed to handle_output
OutputCommands ==
  {<<"l", "s">>, <<"l", "s", " ", "-", "a">>, <<"f", "a", "l", "s", "e">>}

ExitStatuses == {[code |-> Some(0)], [code |-> Some(1)], [code |-> Some(2)],
                 [code |-> None]}

OutputEnvs ==
  [clipboard_new : BOOLEAN, set_text : BOOLEAN, spawn : BOOLEAN,
   status : ExitStatuses]

InitOutput ==
  /\ u_pc = "input"
  /\ u_in \in [kind : {"output"}, command : OutputCommands,
               mode : OutputModes, env : OutputEnvs]
  /\ u_out = << >>
  /\ EngineOff
  /\ PureOff

\* output::handle_output(&command, mode)
OutputApply ==
  /\ u_pc = "input"
  /\ u_in.kind = "output"
  /\ u_out' = handle_output(u_in.command, u_in.mode, u_in.env)
  /\ u_pc' = "done"
  /\ UNCHANGED <<u_in, app_vars, pure_vars>>

NextOutput == OutputApply

SpecOutput == InitOutput /\ [][NextOutput]_vars

(***************************************************************************)
(* wizard.rs: Wizard.  A Config is its steps and presets; the configs      *)
(* drawn have no placeholder_options, so that has_placeholder_options is   *)
(* false and prepare_confirm_phase fetches nothing.  A Step has an id, a   *)
(* step_type, options (label, flag, chain), a flag, a default and a when,  *)
(* the set of the pairs (step id, expected value) of its HashMap.  An      *)
(* Answer is a record with its variant as type.  answers maps every id     *)
(* of the config to None or Some(answer).  Labels, flags and texts are     *)
(* sequences of characters.                                                *)
(***************************************************************************)
Answer_Choice(idx) == [type |-> "Choice", idx |-> idx]

Answer_Toggle(val) == [type |-> "Toggle", val |-> val]

Answer_Text(text) == [type |-> "Text", text |-> text]

Answer_Multi(indices) == [type |-> "Multi", indices |-> indices]

\* self.answers.get(step_id)
answers_get(w, step_id) ==
  IF step_id \in DOMAIN w.answers THEN w.answers[step_id] ELSE None

\* ref_step.options.get(idx).map(|o| o.label)
label_at(step, idx) ==
  IF idx < Len(step.options) THEN Some(step.options[idx + 1].label) ELSE None

\* self.config.steps.iter().find(|s| &s.id == step_id)
find_step(w, step_id) ==
  LET found == {i \in 1..Len(w.config.steps) : w.config.steps[i].id = step_id}
  IN  IF found = {} THEN None ELSE Some(w.config.steps[Min(found)])

\* when_entry_holds with a referenced step without an answer taken as a match
when_entry_holds_unanswered(w, step_id, expected_value) ==
  LET answer == answers_get(w, step_id)
      ref_step == find_step(w, step_id)
  IN  IF ~is_some(answer) THEN TRUE
      ELSE IF answer[1].type = "Choice"
      THEN /\ is_some(ref_step)
           /\ label_at(ref_step[1], answer[1].idx) = Some(expected_value)
      ELSE IF answer[1].type = "Toggle"
      THEN \/ answer[1].val /\ expected_value = <<"t", "r", "u", "e">>
           \/ ~answer[1].val /\ expected_value = <<"f", "a", "l", "s", "e">>
      ELSE IF answer[1].type = "Text"
      THEN answer[1].text = expected_value
      ELSE /\ is_some(ref_step)
           /\ \E k \in 1..Len(answer[1].indices) :
                label_at(ref_step[1], answer[1].indices[k]) = Some(expected_value)

\* the body of the loop of should_show_step for one entry of when: the
\* entry does not make the step hidden
when_entry_holds(w, step_id, expected_value) ==
  LET answer == answers_get(w, step_id)
      ref_step == find_step(w, step_id)
  IN  IF ~is_some(answer) THEN FALSE
      ELSE IF answer[1].type = "Choice"
      THEN /\ is_some(ref_step)
           /\ (IF is_some(label_at(ref_step[1], answer[1].idx))
               THEN label_at(ref_step[1], answer[1].idx)[1]
               ELSE << >>) = expected_value
      ELSE IF answer[1].type = "Toggle"
      THEN \/ answer[1].val /\ expected_value = <<"t", "r", "u", "e">>
           \/ ~answer[1].val /\ expected_value = <<"f", "a", "l", "s", "e">>
      ELSE IF answer[1].type = "Text"
      THEN answer[1].text = expected_value
      ELSE /\ is_some(ref_step)
           /\ \E k \in 1..Len(answer[1].indices) :
                label_at(ref_step[1], answer[1].indices[k]) = Some(expected_value)

\* Wizard::should_show_step
should_show_step(w, step) ==
  IF ~is_some(step.when) THEN TRUE
  ELSE \A entry \in step.when[1] : when_entry_holds(w, entry[1], entry[2])

\* the steps of steps that should_show_step keeps, in order
RECURSIVE filter_steps(_, _)
filter_steps(w, steps) ==
  IF Len(steps) = 0 THEN << >>
  ELSE (IF should_show_step(w, steps[1]) THEN <<steps[1]>> ELSE << >>)
       \o filter_steps(w, Tail(steps))

\* Wizard::visible_steps
visible_steps(w) == filter_steps(w, w.config.steps)

\* Wizard::current_step
current_step(w) ==
  IF w.current_step < Len(visible_steps(w))
  THEN Some(visible_steps(w)[w.current_step + 1])
  ELSE None

\* Wizard::init_step
init_step(w) ==
  IF ~is_some(current_step(w)) THEN w
  ELSE LET step == current_step(w)[1]
       IN  IF step.step_type = "Choice"
           THEN [w EXCEPT !.choice_index =
                            IF is_some(step.default) THEN step.default[1] ELSE 0]
           ELSE IF step.step_type = "Toggle"
           THEN [w EXCEPT !.toggle_value = FALSE]
           ELSE IF step.step_type = "Text"
           THEN [w EXCEPT !.text_buffer = << >>]
           ELSE [w EXCEPT !.multi_selected =
                            [i \in 1..Len(step.options) |-> FALSE]]

\* the indices i (0-based) from `from` on with multi_selected[i], in order
RECURSIVE selected_indices(_, _)
selected_indices(multi_selected, from) ==
  IF from >= Len(multi_selected) THEN << >>
  ELSE (IF multi_selected[from + 1] THEN <<from>> ELSE << >>)
       \o selected_indices(multi_selected, from + 1)

\* Wizard::save_answer
save_answer(w) ==
  IF ~is_some(current_step(w)) THEN w
  ELSE LET step == current_step(w)[1]
           answer ==
             IF step.step_type = "Choice" THEN Answer_Choice(w.choice_index)
             ELSE IF step.step_type = "Toggle" THEN Answer_Toggle(w.toggle_value)
             ELSE IF step.step_type = "Text" THEN Answer_Text(w.text_buffer)
             ELSE Answer_Multi(selected_indices(w.multi_selected, 0))
       IN  [w EXCEPT !.answers[step.id] = Some(answer)]

\* Wizard::get_current_chain
get_current_chain(w) ==
  IF ~is_some(current_step(w)) THEN None
  ELSE IF current_step(w)[1].step_type # "Choice" THEN None
  ELSE IF ~(w.choice_index < Len(current_step(w)[1].options)) THEN None
  ELSE current_step(w)[1].options[w.choice_index + 1].chain

\* Wizard::prepare_confirm_phase, for a config without placeholder_options
prepare_confirm_phase(w) == w

\* next_step without the init_step of the step moved to
next_step_keeps_widget(w) ==
  LET chain == get_current_chain(w)
      saved == save_answer(w)
  IN  IF is_some(chain) THEN [wizard |-> w, chain |-> chain]
      ELSE IF saved.current_step + 1 >= Len(visible_steps(saved))
      THEN [wizard |-> prepare_confirm_phase([saved EXCEPT !.phase = "Confirm"]),
            chain |-> None]
      ELSE [wizard |-> [saved EXCEPT !.current_step = @ + 1], chain |-> None]

\* next_step that saves the answer before it looks for a chain
next_step_saves_before_chain(w) ==
  LET chain == get_current_chain(w)
      saved == save_answer(w)
  IN  IF is_some(chain) THEN [wizard |-> saved, chain |-> chain]
      ELSE IF saved.current_step + 1 >= Len(visible_steps(saved))
      THEN [wizard |-> prepare_confirm_phase([saved EXCEPT !.phase = "Confirm"]),
            chain |-> None]
      ELSE [wizard |-> init_step([saved EXCEPT !.current_step = @ + 1]),
            chain |-> None]

\* Wizard::next_step: the wizard after the call and the chain returned
next_step(w) ==
  LET chain == get_current_chain(w)
      saved == save_answer(w)
  IN  IF is_some(chain) THEN [wizard |-> w, chain |-> chain]
      ELSE IF saved.current_step + 1 >= Len(visible_steps(saved))
      THEN [wizard |-> prepare_confirm_phase([saved EXCEPT !.phase = "Confirm"]),
            chain |-> None]
      ELSE [wizard |-> init_step([saved EXCEPT !.current_step = @ + 1]),
            chain |-> None]

\* vec![false; len] with true at the indices below len
restore_multi(indices, len) ==
  [i \in 1..len |-> \E k \in 1..Len(indices) : indices[k] = i - 1]

\* the "Restore previous answer" part of prev_step
restore_answer(w) ==
  IF ~is_some(current_step(w)) THEN w
  ELSE LET step == current_step(w)[1]
           answer == answers_get(w, step.id)
       IN  IF ~is_some(answer) THEN w
           ELSE IF answer[1].type = "Choice"
           THEN [w EXCEPT !.choice_index = answer[1].idx]
           ELSE IF answer[1].type = "Toggle"
           THEN [w EXCEPT !.toggle_value = answer[1].val]
           ELSE IF answer[1].type = "Text"
           THEN [w EXCEPT !.text_buffer = answer[1].text]
           ELSE [w EXCEPT !.multi_selected =
                            restore_multi(answer[1].indices, Len(step.options))]

\* Wizard::prev_step
prev_step(w) ==
  IF w.phase = "Confirm"
  THEN init_step([w EXCEPT !.phase = "Steps"])
  ELSE IF w.current_step > 0
  THEN restore_answer(init_step([w EXCEPT !.current_step = @ - 1]))
  ELSE w

\* the flags of the options of step at indices[from ..] that have one
RECURSIVE multi_flags(_, _, _)
multi_flags(step, indices, from) ==
  IF from > Len(indices) THEN << >>
  ELSE (IF indices[from] < Len(step.options)
           /\ is_some(step.options[indices[from] + 1].flag)
        THEN <<step.options[indices[from] + 1].flag[1]>> ELSE << >>)
       \o multi_flags(step, indices, from + 1)

\* the parts that build_command pushes for one step
step_parts(w, step) ==
  LET answer == answers_get(w, step.id)
  IN  IF ~is_some(answer) THEN << >>
      ELSE IF step.step_type = "Choice" /\ answer[1].type = "Choice"
      THEN IF answer[1].idx < Len(step.options)
              /\ is_some(step.options[answer[1].idx + 1].flag)
           THEN <<step.options[answer[1].idx + 1].flag[1]>> ELSE << >>
      ELSE IF step.step_type = "Toggle" /\ answer[1].type = "Toggle"
      THEN IF answer[1].val /\ is_some(step.flag) THEN <<step.flag[1]>>
           ELSE << >>
      ELSE IF step.step_type = "Text" /\ answer[1].type = "Text"
      THEN IF is_empty(answer[1].text) THEN << >>
           ELSE IF is_some(step.flag)
           THEN <<step.flag[1] \o <<" ">> \o answer[1].text>>
           ELSE <<answer[1].text>>
      ELSE IF step.step_type = "Multi" /\ answer[1].type = "Multi"
      THEN multi_flags(step, answer[1].indices, 1)
      ELSE << >>

\* the loop of build_command over config.steps[from ..]
RECURSIVE wizard_parts(_, _)
wizard_parts(w, from) ==
  IF from > Len(w.config.steps) THEN << >>
  ELSE step_parts(w, w.config.steps[from]) \o wizard_parts(w, from + 1)

\* Wizard::build_command
Wizard_build_command(w) == join(w.base_command \o wizard_parts(w, 1))

\* Wizard::selected_preset and build_preset_command
build_preset_command(w) ==
  IF w.menu_index > 0 /\ w.menu_index - 1 < Len(w.config.presets)
  THEN Some(join(w.base_command) \o <<" ">>
            \o w.config.presets[w.menu_index].flags)
  ELSE None

\* Wizard::current_command
current_command(w) ==
  IF w.menu_index = 0 THEN Wizard_build_command(w)
  ELSE IF is_some(build_preset_command(w)) THEN build_preset_command(w)[1]
  ELSE << >>

\* Wizard::menu_item_count
menu_item_count(w) == 1 + Len(w.config.presets)

\* Wizard::new
Wizard_new(config, base) ==
  [config |-> config, base_command |-> base,
   answers |-> [id \in {config.steps[i].id : i \in 1..Len(config.steps)} |-> None],
   current_step |-> 0,
   phase |-> IF Len(config.presets) = 0 THEN "Steps" ELSE "Menu",
   menu_index |-> 0, choice_index |-> 0, toggle_value |-> FALSE,
   text_buffer |-> << >>, multi_selected |-> << >>]

\* two toggles, the second shown while the first is off
ConfigToggles ==
  [steps |-> <<
    [id |-> "a", step_type |-> "Toggle",
     options |-> <<>>,
     flag |-> Some(<<"-", "a">>), default |-> None,
     when |-> None],
    [id |-> "b", step_type |-> "Toggle",
     options |-> <<>>,
     flag |-> Some(<<"-", "b">>), default |-> None,
     when |-> Some({<<"a", <<"f", "a", "l", "s", "e">>>>})]>>,
   presets |-> <<>>]

\* a choice, a toggle shown for its first option, and a text
ConfigCond ==
  [steps |-> <<
    [id |-> "mode", step_type |-> "Choice",
     options |-> <<[label |-> <<"L", "i", "s", "t">>, flag |-> Some(<<"-", "l">>), chain |-> None],
                 [label |-> <<"G", "r", "i", "d">>, flag |-> None, chain |-> None]>>,
     flag |-> None, default |-> None,
     when |-> None],
    [id |-> "all", step_type |-> "Toggle",
     options |-> <<>>,
     flag |-> Some(<<"-", "a">>), default |-> None,
     when |-> Some({<<"mode", <<"L", "i", "s", "t">>>>})],
    [id |-> "name", step_type |-> "Text",
     options |-> <<>>,
     flag |-> Some(<<"-", "n">>), default |-> None,
     when |-> None]>>,
   presets |-> <<>>]

\* presets, a choice with a default and a chaining option, and a multi
ConfigChain ==
  [steps |-> <<
    [id |-> "action", step_type |-> "Choice",
     options |-> <<[label |-> <<"R", "u", "n">>, flag |-> None, chain |-> Some(<<"r", "u", "n">>)],
                 [label |-> <<"B", "u", "i", "l", "d">>, flag |-> Some(<<"b">>), chain |-> None],
                 [label |-> <<"T", "e", "s", "t">>, flag |-> Some(<<"t">>), chain |-> None]>>,
     flag |-> None, default |-> Some(2),
     when |-> None],
    [id |-> "opts", step_type |-> "Multi",
     options |-> <<[label |-> <<"X">>, flag |-> Some(<<"-", "x">>), chain |-> None]>>,
     flag |-> None, default |-> None,
     when |-> None]>>,
   presets |-> <<[label |-> <<"P">>, flags |-> <<"-", "p">>]>>]

\* a multi, a text and a toggle, and a toggle shown for all three
ConfigWhen ==
  [steps |-> <<
    [id |-> "m", step_type |-> "Multi",
     options |-> <<[label |-> <<"A">>, flag |-> Some(<<"-", "a">>), chain |-> None],
                 [label |-> <<"B">>, flag |-> Some(<<"-", "b">>), chain |-> None]>>,
     flag |-> None, default |-> None,
     when |-> None],
    [id |-> "t", step_type |-> "Text",
     options |-> <<>>,
     flag |-> None, default |-> None,
     when |-> None],
    [id |-> "y", step_type |-> "Toggle",
     options |-> <<>>,
     flag |-> Some(<<"-", "y">>), default |-> None,
     when |-> None],
    [id |-> "z", step_type |-> "Toggle",
     options |-> <<>>,
     flag |-> Some(<<"-", "z">>), default |-> None,
     when |-> Some({<<"m", <<"B">>>>, <<"t", <<"a">>>>, <<"y", <<"t", "r", "u", "e">>>>})]>>,
   presets |-> <<>>]

\* no steps
ConfigEmpty == [steps |-> << >>, presets |-> << >>]

\* the configs handed to run
WizardConfigs ==
  {ConfigToggles, ConfigCond, ConfigChain, ConfigWhen, ConfigEmpty}

\* the base command handed to run
WizardBase == <<<<"t", "e", "s", "t">>>>

\* the key events read by run
WizardKeys ==
  [code : {"Enter", "Esc", "Up", "Down", "Left", "Backspace", "Tab"},
   ch : {""}, ctrl : {FALSE}]
  \cup [code : {"Char"}, ch : {"q", "a"}, ctrl : {FALSE}]
  \cup [code : {"Char"}, ch : {"c"}, ctrl : {TRUE}]

WizardResult_Command(cmd, m) == [kind |-> "Command", command |-> cmd, mode |-> m]

WizardResult_Chain(chain) == [kind |-> "Chain", chain |-> chain]

WizardResult_Back == [kind |-> "Back"]

WizardResult_Quit == [kind |-> "Quit"]

InitWizard ==
  /\ u_pc = "input"
  /\ u_in \in [kind : {"wizard"}, config : WizardConfigs,
               base_command : {WizardBase}]
  /\ u_out = << >>
  /\ EngineOff
  /\ PureOff

\* run: config.steps.is_empty()
WizardNoSteps ==
  /\ u_pc = "input"
  /\ u_in.kind = "wizard"
  /\ Len(u_in.config.steps) = 0
  /\ u_out' = [result |-> Some(WizardResult_Quit)]
  /\ u_pc' = "nosteps"
  /\ UNCHANGED <<u_in, app_vars, pure_vars>>

\* run: Wizard::new and the first init_step
WizardStart ==
  /\ u_pc = "input"
  /\ u_in.kind = "wizard"
  /\ Len(u_in.config.steps) > 0
  /\ u_out' = [wizard |-> init_step(Wizard_new(u_in.config, u_in.base_command)),
               prior_answers |->
                 Wizard_new(u_in.config, u_in.base_command).answers,
               key |-> NoEvent, result |-> None]
  /\ u_pc' = "loop"
  /\ UNCHANGED <<u_in, app_vars, pure_vars>>

\* the loop of run reads a key event in phase
ReadingKey(phase) ==
  /\ u_pc = "loop"
  /\ u_in.kind = "wizard"
  /\ u_out.wizard.phase = phase

\* one turn of the loop of run: the key k read, the wizard w after its
\* arm, and the result the arm breaks with; prior_answers keeps the
\* answers as they were when k was read
Turn(k, w, res) ==
  /\ u_out' = [wizard |-> w, prior_answers |-> u_out.wizard.answers,
               key |-> k, result |-> res]
  /\ u_pc' = IF is_some(res) THEN "done" ELSE "loop"
  /\ UNCHANGED <<u_in, app_vars, pure_vars>>

IsUp(k) == k.code = "Up" \/ IsChar(k, "k")

IsDown(k) == k.code = "Down" \/ IsChar(k, "j")

IsFlip(k) == k.code \in {"Left", "Right"} \/ IsChar(k, " ")

\* Phase::Menu, Esc
MenuEsc ==
  /\ ReadingKey("Menu")
  /\ \E k \in WizardKeys :
       /\ k.code = "Esc"
       /\ Turn(k, u_out.wizard, Some(WizardResult_Back))

\* Phase::Menu, 'q'
MenuQuit ==
  /\ ReadingKey("Menu")
  /\ \E k \in WizardKeys :
       /\ IsChar(k, "q")
       /\ Turn(k, u_out.wizard, Some(WizardResult_Quit))

\* Phase::Menu, Up | 'k'
MenuUp ==
  /\ ReadingKey("Menu")
  /\ \E k \in WizardKeys :
       /\ IsUp(k)
       /\ Turn(k, IF u_out.wizard.menu_index > 0
                  THEN [u_out.wizard EXCEPT !.menu_index = @ - 1]
                  ELSE u_out.wizard, None)

\* Phase::Menu, Down | 'j'
MenuDown ==
  /\ ReadingKey("Menu")
  /\ \E k \in WizardKeys :
       /\ IsDown(k)
       /\ Turn(k, IF u_out.wizard.menu_index + 1 < menu_item_count(u_out.wizard)
                  THEN [u_out.wizard EXCEPT !.menu_index = @ + 1]
                  ELSE u_out.wizard, None)

\* Phase::Menu, Enter
MenuEnter ==
  /\ ReadingKey("Menu")
  /\ \E k \in WizardKeys :
       /\ k.code = "Enter"
       /\ Turn(k, IF u_out.wizard.menu_index = 0
                  THEN init_step([u_out.wizard EXCEPT !.phase = "Steps"])
                  ELSE prepare_confirm_phase(
                         [u_out.wizard EXCEPT !.phase = "Confirm"]), None)

\* Phase::Menu, Ctrl-c and Ctrl-x
MenuPreset ==
  /\ ReadingKey("Menu")
  /\ \E k \in WizardKeys :
       /\ k.ctrl /\ (IsChar(k, "c") \/ IsChar(k, "x"))
       /\ Turn(k, u_out.wizard,
               IF is_some(build_preset_command(u_out.wizard))
               THEN Some(WizardResult_Command(
                      build_preset_command(u_out.wizard)[1],
                      IF IsChar(k, "c") THEN "Clipboard" ELSE "Execute"))
               ELSE None)

\* Phase::Menu, any other key
MenuOther ==
  /\ ReadingKey("Menu")
  /\ \E k \in WizardKeys :
       /\ ~(k.code \in {"Esc", "Enter"} \/ IsChar(k, "q") \/ IsUp(k) \/ IsDown(k))
       /\ ~(k.ctrl /\ (IsChar(k, "c") \/ IsChar(k, "x")))
       /\ Turn(k, u_out.wizard, None)

\* wizard.current_step().map(|s| s.step_type.clone())
step_type(w) ==
  IF is_some(current_step(w)) THEN Some(current_step(w)[1].step_type) ELSE None

\* Phase::Steps, Esc
StepsEsc ==
  /\ ReadingKey("Steps")
  /\ \E k \in WizardKeys :
       /\ k.code = "Esc"
       /\ IF u_out.wizard.current_step = 0
          THEN IF Len(u_out.wizard.config.presets) = 0
               THEN Turn(k, u_out.wizard, Some(WizardResult_Back))
               ELSE Turn(k, [u_out.wizard EXCEPT
                               !.phase = "Menu",
                               !.answers = [id \in DOMAIN @ |-> None]], None)
          ELSE Turn(k, prev_step(u_out.wizard), None)

\* Phase::Steps, 'q'
StepsQuit ==
  /\ ReadingKey("Steps")
  /\ \E k \in WizardKeys :
       /\ IsChar(k, "q")
       /\ Turn(k, u_out.wizard, Some(WizardResult_Quit))

\* Phase::Steps, Enter
StepsEnter ==
  /\ ReadingKey("Steps")
  /\ \E k \in WizardKeys :
       /\ k.code = "Enter"
       /\ Turn(k, next_step(u_out.wizard).wizard,
               IF is_some(next_step(u_out.wizard).chain)
               THEN Some(WizardResult_Chain(next_step(u_out.wizard).chain[1]))
               ELSE None)

\* Phase::Steps, Up | 'k'
StepsUp ==
  /\ ReadingKey("Steps")
  /\ \E k \in WizardKeys :
       /\ IsUp(k)
       /\ Turn(k, IF /\ step_type(u_out.wizard) \in {Some("Choice"), Some("Multi")}
                     /\ u_out.wizard.choice_index > 0
                  THEN [u_out.wizard EXCEPT !.choice_index = @ - 1]
                  ELSE u_out.wizard, None)

\* Phase::Steps, Down | 'j'
StepsDown ==
  /\ ReadingKey("Steps")
  /\ \E k \in WizardKeys :
       /\ IsDown(k)
       /\ Turn(k, IF /\ step_type(u_out.wizard) \in {Some("Choice"), Some("Multi")}
                     /\ u_out.wizard.choice_index + 1
                          < Len(current_step(u_out.wizard)[1].options)
                  THEN [u_out.wizard EXCEPT !.choice_index = @ + 1]
                  ELSE u_out.wizard, None)

\* Phase::Steps, Left | Right | ' '
StepsFlip ==
  /\ ReadingKey("Steps")
  /\ \E k \in WizardKeys :
       /\ IsFlip(k)
       /\ Turn(k, IF step_type(u_out.wizard) = Some("Toggle")
                  THEN [u_out.wizard EXCEPT !.toggle_value = ~@]
                  ELSE IF /\ step_type(u_out.wizard) = Some("Multi")
                          /\ u_out.wizard.choice_index
                               < Len(u_out.wizard.multi_selected)
                  THEN [u_out.wizard EXCEPT
                          !.multi_selected[u_out.wizard.choice_index + 1] = ~@]
                  ELSE u_out.wizard, None)

\* Phase::Steps, Char(c): the text is kept within MaxText characters
StepsChar ==
  /\ ReadingKey("Steps")
  /\ \E k \in WizardKeys :
       /\ k.code = "Char"
       /\ ~(IsChar(k, "q") \/ IsUp(k) \/ IsDown(k) \/ IsFlip(k))
       /\ step_type(u_out.wizard) = Some("Text")
            => Len(u_out.wizard.text_buffer) < MaxText
       /\ Turn(k, IF step_type(u_out.wizard) = Some("Text")
                  THEN [u_out.wizard EXCEPT !.text_buffer = Append(@, k.ch)]
                  ELSE u_out.wizard, None)

\* Phase::Steps, Backspace
StepsBackspace ==
  /\ ReadingKey("Steps")
  /\ \E k \in WizardKeys :
       /\ k.code = "Backspace"
       /\ Turn(k, IF /\ step_type(u_out.wizard) = Some("Text")
                     /\ Len(u_out.wizard.text_buffer) > 0
                  THEN [u_out.wizard EXCEPT
                          !.text_buffer = SubSeq(@, 1, Len(@) - 1)]
                  ELSE u_out.wizard, None)

\* Phase::Steps, any other key
StepsOther ==
  /\ ReadingKey("Steps")
  /\ \E k \in WizardKeys :
       /\ k.code = "Tab"
       /\ Turn(k, u_out.wizard, None)

\* Phase::Confirm, Esc
ConfirmEsc ==
  /\ ReadingKey("Confirm")
  /\ \E k \in WizardKeys :
       /\ k.code = "Esc"
       /\ Turn(k, IF u_out.wizard.menu_index = 0
                  THEN prev_step(u_out.wizard)
                  ELSE [u_out.wizard EXCEPT !.phase = "Menu"], None)

\* Phase::Confirm, 'q'
ConfirmQuit ==
  /\ ReadingKey("Confirm")
  /\ \E k \in WizardKeys :
       /\ IsChar(k, "q")
       /\ Turn(k, u_out.wizard, Some(WizardResult_Quit))

\* Phase::Confirm, Enter, Ctrl-c and Ctrl-p, without placeholder values
ConfirmCommand ==
  /\ ReadingKey("Confirm")
  /\ \E k \in WizardKeys :
       /\ \/ k.code = "Enter"
          \/ k.ctrl /\ (IsChar(k, "c") \/ IsChar(k, "p"))
       /\ Turn(k, u_out.wizard,
               Some(WizardResult_Command(
                      current_command(u_out.wizard),
                      IF k.code = "Enter" THEN "Execute"
                      ELSE IF IsChar(k, "c") THEN "Clipboard" ELSE "Print")))

\* Phase::Confirm, any other key; Up and Down move among the placeholder
\* values, of which there are none
ConfirmOther ==
  /\ ReadingKey("Confirm")
  /\ \E k \in WizardKeys :
       /\ ~(k.code \in {"Esc", "Enter"} \/ IsChar(k, "q"))
       /\ ~(k.ctrl /\ (IsChar(k, "c") \/ IsChar(k, "p")))
       /\ Turn(k, u_out.wizard, None)

NextWizard ==
  \/ WizardNoSteps
  \/ WizardStart
  \/ MenuEsc
  \/ MenuQuit
  \/ MenuUp
  \/ MenuDown
  \/ MenuEnter
  \/ MenuPreset
  \/ MenuOther
  \/ StepsEsc
  \/ StepsQuit
  \/ StepsEnter
  \/ StepsUp
  \/ StepsDown
  \/ StepsFlip
  \/ StepsChar
  \/ StepsBackspace
  \/ StepsOther
  \/ ConfirmEsc
  \/ ConfirmQuit
  \/ ConfirmCommand
  \/ ConfirmOther

SpecWizard == InitWizard /\ [][NextWizard]_vars

(***************************************************************************)
(* The properties.                                                         *)
(***************************************************************************)
\* the strings of a sequence of Option<String>, in order
RECURSIVE present(_)
present(args) ==
  IF Len(args) = 0 THEN << >> ELSE args[1] \o present(Tail(args))

\* the options of opts that are selected, in order
RECURSIVE selected_only(_)
selected_only(opts) ==
  IF Len(opts) = 0 THEN << >>
  ELSE (IF opts[1].selected THEN <<opts[1]>> ELSE << >>)
       \o selected_only(Tail(opts))

\* the length of the first k strings of parts with a separator after each
RECURSIVE join_offset(_, _)
join_offset(parts, k) ==
  IF k = 0 THEN 0 ELSE join_offset(parts, k - 1) + Len(parts[k]) + 1

\* cmd is the strings of parts in their order, each at its place, with
\* exactly one space between two neighbours and nothing else
IsJoined(cmd, parts) ==
  /\ Len(cmd) = IF Len(parts) = 0 THEN 0 ELSE join_offset(parts, Len(parts)) - 1
  /\ \A k \in 1..Len(parts) :
       /\ SubSeq(cmd, join_offset(parts, k - 1) + 1,
                 join_offset(parts, k) - 1) = parts[k]
       /\ k < Len(parts) => cmd[join_offset(parts, k)] = " "

\* the option under the cursor (1-based), when the cursor is on one
Cursor == list_state[1] + 1

Flag_v == <<"-", "v">>

Flag_verbose == <<"-", "-", "v", "e", "r", "b", "o", "s", "e">>

\* C1: to_arg returns nothing for an option that is not selected,
\* whatever its other fields are, so the command built from a list of
\* options is the command built from its selected options alone, and the
\* base tokens alone when no option is selected.
C1_UnselectedContributesNothing ==
  p_pc = "done" =>
    /\ \A i \in 1..Len(p_opts) : ~p_opts[i].selected => p_args[i] = None
    /\ p_cmd = build_command(p_base, selected_only(p_opts))
    /\ (\A i \in 1..Len(p_opts) : ~p_opts[i].selected) => p_cmd = join(p_base)

\* an unselected option with a value, a choice list and takes_value, next
\* to a selected option
C1_Witness ==
  /\ p_pc = "done"
  /\ Len(p_opts) = 2
  /\ ~p_opts[1].selected /\ p_opts[1].takes_value
  /\ p_opts[1].value = <<"a">> /\ is_some(p_opts[1].choices)
  /\ p_opts[2].selected /\ is_some(p_args[2])

\* C2 as stated: for the help text of two flags "-a, --all" and "-l" and
\* the base tokens ["ls"], the command with both options selected is
\* "ls -a -l".
C2_Original ==
  (/\ help = "ls" /\ base_command = << <<"l", "s">> >>
   /\ \A i \in 1..Len(options) : options[i].selected)
  => preview = <<"l", "s", " ", "-", "a", " ", "-", "l">>

\* C2, amended: for that help text and base, parse_help extracts two
\* options, and with both selected the command is "ls --all -l", on the
\* screen and as the result of the session.
C2_LsScenario ==
  (help = "ls" /\ base_command = << <<"l", "s">> >>) =>
    /\ Len(options) = 2
    /\ (\A i \in 1..Len(options) : options[i].selected) =>
         /\ preview = <<"l", "s", " ", "-", "-", "a", "l", "l", " ", "-", "l">>
         /\ session = "emitted" => result[1].command = preview

C2_Witness ==
  /\ help = "ls" /\ base_command = << <<"l", "s">> >>
  /\ \A i \in 1..Len(options) : options[i].selected
  /\ session = "emitted"

\* C3: the command is the base tokens in their order, then the argument
\* of every option for which to_arg returns one, in the order of the
\* options, joined by exactly one space; with the base ["ls"] and no
\* argument it is "ls".
C3_BaseThenArgsInOrder ==
  p_pc = "done" =>
    /\ IsJoined(p_cmd, p_base \o present(p_args))
    /\ (p_base = << <<"l", "s">> >> /\ Len(present(p_args)) = 0)
         => p_cmd = <<"l", "s">>

\* two base tokens and two arguments
C3_Witness ==
  /\ p_pc = "done"
  /\ Len(p_base) = 2
  /\ Len(present(p_args)) = 2
  /\ present(p_args)[1] # present(p_args)[2]

\* C4: whatever the events were that led to them, the options decide the
\* command: what the screen shows is the base tokens and then the
\* arguments of the options in extraction order, and a session that ends
\* with a result returns the command the screen showed, the second
\* assembly changing nothing.
C4_CommandIsFunctionOfOptions ==
  session # "off" =>
    /\ IsJoined(preview,
                base_command
                \o present([i \in 1..Len(options) |-> to_arg(options[i])]))
    /\ is_some(result) => result[1].command = preview

\* a later option was turned on before an earlier one, and both are in
\* the command returned
C4_Witness ==
  /\ session = "emitted"
  /\ Len(toggle_order) >= 2
  /\ toggle_order[1] > toggle_order[2]
  /\ is_some(to_arg(options[toggle_order[1] + 1]))
  /\ is_some(to_arg(options[toggle_order[2] + 1]))

\* C5: for a selected option that takes a value and has no choices,
\* to_arg is the flag token, a space and the value when the value is not
\* empty, and nothing when it is empty.
C5_ValueOrNothing ==
  p_pc = "done" =>
    \A i \in 1..Len(p_opts) :
      (p_opts[i].selected /\ p_opts[i].takes_value /\ p_opts[i].choices = None)
      => p_args[i] = IF p_opts[i].value = << >> THEN None
                     ELSE Some(to_arg_flag(p_opts[i])[1] \o <<" ">>
                               \o p_opts[i].value)

\* a selected value-taking option without a value, and one with a value
C5_Witness ==
  /\ p_pc = "done"
  /\ Len(p_opts) = 2
  /\ \A i \in 1..2 : /\ p_opts[i].selected /\ p_opts[i].takes_value
                     /\ p_opts[i].choices = None
  /\ p_opts[1].value = << >> /\ p_args[1] = None
  /\ p_opts[2].value = <<"a">> /\ is_some(p_args[2])

\* the first n characters of s, all of s when it has fewer
Prefix(s, n) == IF n <= Len(s) THEN SubSeq(s, 1, n) ELSE s

\* C6: the argument of a selected option starts with "--" and the long
\* name when there is a long name, with or without a short name, and with
\* "-" and the short name when there is none; for a selected boolean
\* option it is that token alone ("--verbose", "-v").
C6_LongBeforeShort ==
  p_pc = "done" =>
    \A i \in 1..Len(p_opts) :
      LET opt == p_opts[i]
          token == IF is_some(opt.long) THEN <<"-", "-">> \o opt.long[1]
                   ELSE <<"-", opt.short[1]>>
      IN  /\ (opt.selected /\ is_some(p_args[i]))
               => Prefix(p_args[i][1], Len(token)) = token
          /\ (opt.selected /\ ~opt.takes_value /\ opt.choices = None)
               => p_args[i] = Some(token)
          /\ (opt.selected /\ ~opt.takes_value /\ opt.choices = None
              /\ opt.long = Some(<<"v", "e", "r", "b", "o", "s", "e">>))
               => p_args[i] = Some(Flag_verbose)
          /\ (opt.selected /\ ~opt.takes_value /\ opt.choices = None
              /\ opt.long = None /\ opt.short = Some("v"))
               => p_args[i] = Some(Flag_v)

\* a selected boolean option with both names next to one with a short
\* name only
C6_Witness ==
  /\ p_pc = "done"
  /\ Len(p_opts) = 2
  /\ \A i \in 1..2 : /\ p_opts[i].selected /\ ~p_opts[i].takes_value
                     /\ p_opts[i].choices = None
  /\ is_some(p_opts[1].short) /\ is_some(p_opts[1].long)
  /\ p_opts[2].long = None
  /\ p_args[2] = Some(Flag_v)

\* C7: for a selected option with a choice list, to_arg is the flag
\* token, a space and the choice at choice_index, whatever value and
\* takes_value are.
C7_ChoiceAtIndex ==
  p_pc = "done" =>
    \A i \in 1..Len(p_opts) :
      (p_opts[i].selected /\ is_some(p_opts[i].choices))
      => p_args[i] = Some(to_arg_flag(p_opts[i])[1] \o <<" ">>
                          \o p_opts[i].choices[1][p_opts[i].choice_index + 1])

\* a selected option at its second choice that has a value too, once with
\* takes_value and once without
C7_Witness ==
  /\ p_pc = "done"
  /\ Len(p_opts) = 2
  /\ \A i \in 1..2 : /\ p_opts[i].selected /\ is_some(p_opts[i].choices)
                     /\ p_opts[i].choice_index = 1
                     /\ p_opts[i].value = <<"a">>
  /\ p_opts[1].takes_value /\ ~p_opts[2].takes_value

\* C8: every option with a choice list has a non-empty one, and its
\* choice_index is an index of it.
C8_ChoiceIndexValid ==
  session # "off" =>
    \A i \in 1..Len(options) :
      is_some(options[i].choices) =>
        /\ Len(options[i].choices[1]) > 0
        /\ options[i].choice_index >= 0
        /\ options[i].choice_index < Len(options[i].choices[1])

\* a cycle-back event from the first choice has put an option at its last
\* choice
C8_Witness ==
  /\ session = "running"
  /\ key.code = "Left"
  /\ \E i \in 1..Len(options) :
       /\ is_some(options[i].choices)
       /\ Len(options[i].choices[1]) = 3
       /\ options[i].choice_index = 2

\* C9: the toggle key in Normal mode flips selected of the option under
\* the cursor; the mode becomes Input exactly when the option is now
\* selected, takes a value and has no choices, and then the edit buffer is
\* the value of the option; otherwise the mode stays Normal.
C9_Toggle ==
  [][(session = "running" /\ mode = "Normal" /\ IsChar(key', " ")) =>
       /\ options'[Cursor].selected = ~options[Cursor].selected
       /\ mode' = "Input" <=> (/\ options'[Cursor].selected
                               /\ options[Cursor].takes_value
                               /\ options[Cursor].choices = None)
       /\ mode' = "Input" => input_buffer' = options[Cursor].value
       /\ mode' \in {"Normal", "Input"}
       /\ list_state' = list_state]_vars

\* a toggle has turned an option with a value on and the edit buffer
\* holds that value
C9_Witness ==
  /\ session = "running"
  /\ IsChar(key, " ")
  /\ mode = "Input"
  /\ options[Cursor].selected
  /\ input_buffer = <<"q">>
  /\ options[Cursor].value = <<"q">>

\* C10: in Input mode Enter and Esc both write the edit buffer into the
\* value of the option under the cursor and return to Normal; the option
\* is deselected if the value written is empty, and keeps its selected
\* otherwise.
C10_CommitOnEnterAndEsc ==
  [][(session = "running" /\ mode = "Input" /\ key'.code \in {"Enter", "Esc"}) =>
       /\ options'[Cursor].value = input_buffer
       /\ mode' = "Normal"
       /\ options'[Cursor].selected =
            IF input_buffer = << >> THEN FALSE ELSE options[Cursor].selected
       /\ session' = "running"
       /\ list_state' = list_state]_vars

\* Esc has ended an edit and the option holds the value typed
C10_Witness ==
  /\ session = "running"
  /\ key.code = "Esc"
  /\ mode = "Normal"
  /\ options[Cursor].selected
  /\ options[Cursor].value = <<"q", "q">>

\* the last event was the key of one of the characters of cs
IsCharOf(k, cs) == k.code = "Char" /\ k.ch \in cs

\* the fields of an option that extraction sets for good
Immutable(opt) ==
  <<opt.short, opt.long, opt.description, opt.takes_value, opt.value_hint,
    opt.choices>>

\* C11: on an option that takes a value, has no choices and has an empty
\* value, a toggle that turns it on followed at once by Enter or Esc ends
\* in Normal mode with the option unselected and its value empty, and the
\* command shown is the command shown before the toggle.
C11_ToggleThenEmptyCommit ==
  [][(/\ session = "running" /\ mode = "Input" /\ IsChar(key, " ")
      /\ options[Cursor].takes_value /\ options[Cursor].choices = None
      /\ options[Cursor].value = << >>
      /\ key'.code \in {"Enter", "Esc"}) =>
       /\ mode' = "Normal"
       /\ ~options'[Cursor].selected
       /\ options'[Cursor].value = << >>
       /\ list_state' = list_state
       /\ preview' = prior]_vars

\* Esc has ended the edit of an option left without a value while another
\* option is in the command, and the command is what it was
C11_Witness ==
  /\ session = "running"
  /\ key.code = "Esc"
  /\ mode = "Normal"
  /\ options[Cursor].takes_value /\ options[Cursor].choices = None
  /\ ~options[Cursor].selected /\ options[Cursor].value = << >>
  /\ \E i \in 1..Len(options) : options[i].selected
  /\ preview = prior

\* C12: the edit key in Normal mode moves to Input exactly when the option
\* under the cursor is selected and takes a value, and then the edit
\* buffer is the value of the option; otherwise it changes nothing.
C12_EditRequest ==
  [][(session = "running" /\ mode = "Normal" /\ IsChar(key', "e")) =>
       /\ mode' = "Input" <=> (/\ options[Cursor].selected
                               /\ options[Cursor].takes_value)
       /\ mode' = "Input" => input_buffer' = options[Cursor].value
       /\ mode' # "Input" => mode' = "Normal" /\ input_buffer' = input_buffer
       /\ options' = options
       /\ list_state' = list_state
       /\ preview' = preview
       /\ session' = "running"]_vars

\* an edit request has opened the value typed before
C12_Witness ==
  /\ session = "running"
  /\ IsChar(key, "e")
  /\ mode = "Input"
  /\ input_buffer = <<"q">>
  /\ options[Cursor].value = <<"q">>

\* C13: a cycle key in Normal mode changes nothing unless the option under
\* the cursor is selected and has a non-empty choice list, and then it
\* changes the choice_index of that option only; in no step does the
\* choice_index of an option change while the option is not selected.
C13_CycleLocked ==
  [][/\ (/\ session = "running" /\ mode = "Normal"
         /\ (key'.code \in {"Left", "Right"} \/ IsCharOf(key', {"h", "l"}))) =>
          /\ mode' = "Normal" /\ list_state' = list_state
          /\ input_buffer' = input_buffer
          /\ \A i \in 1..Len(options) :
               /\ options'[i].selected = options[i].selected
               /\ options'[i].value = options[i].value
               /\ options'[i].choice_index # options[i].choice_index
                    => /\ i = Cursor
                       /\ options[i].selected
                       /\ is_some(options[i].choices)
                       /\ Len(options[i].choices[1]) > 0
          /\ ~(options[Cursor].selected /\ is_some(options[Cursor].choices))
               => options' = options /\ preview' = preview
     /\ \A i \in 1..Len(options) :
          options'[i].choice_index # options[i].choice_index
            => options[i].selected /\ options'[i].selected]_vars

\* a cycle key on an option that was cycled, then turned off: the choice
\* stays where it was
C13_Witness ==
  /\ session = "running"
  /\ key.code = "Right"
  /\ is_some(options[Cursor].choices)
  /\ ~options[Cursor].selected
  /\ options[Cursor].choice_index = 1
  /\ preview = prior

\* C14: no step changes the number or the order of the options or the
\* short, long, description, takes_value, value_hint or choices of one.
C14_ExtractedFieldsFrozen ==
  [][/\ Len(options') = Len(options)
     /\ \A i \in 1..Len(options) :
          Immutable(options'[i]) = Immutable(options[i])]_vars

\* selected, value and choice_index have all changed
C14_Witness ==
  /\ session = "running"
  /\ Len(options) = 3
  /\ \E i \in 1..Len(options) :
       options[i].selected /\ options[i].value = <<"q">>
  /\ \E i \in 1..Len(options) :
       options[i].selected /\ options[i].choice_index = 2

\* C15: the cursor is always an index of the options; the up keys take one
\* from it except at 0 and the down keys add one to it except at the last
\* index, where they leave it.
C15_CursorClamped ==
  [][/\ is_some(list_state) /\ list_state[1] \in 0..(Len(options) - 1)
     /\ is_some(list_state') /\ list_state'[1] \in 0..(Len(options') - 1)
     /\ (/\ session = "running" /\ mode = "Normal"
         /\ (key'.code = "Up" \/ IsChar(key', "k"))) =>
          list_state'[1] = IF list_state[1] = 0 THEN 0 ELSE list_state[1] - 1
     /\ (/\ session = "running" /\ mode = "Normal"
         /\ (key'.code = "Down" \/ IsChar(key', "j"))) =>
          list_state'[1] = IF list_state[1] = Len(options) - 1
                           THEN list_state[1] ELSE list_state[1] + 1]_vars

\* a down key with the cursor on the last of three options
C15_Witness ==
  /\ session = "running"
  /\ key.code = "Down"
  /\ Len(options) = 3
  /\ list_state = Some(2)

\* C16: in Input mode no event ends the session or produces a result:
\* Enter and Esc commit the edit and a character is appended to the
\* buffer, the characters that end the session in Normal mode too; the
\* session ends only from Normal mode.
C16_TerminalOnlyInNormal ==
  [][/\ (session = "running" /\ mode = "Input") =>
          /\ session' = "running" /\ result' = None /\ sink' = None
          /\ output_mode' = None /\ should_quit' = FALSE
          /\ key'.code \in {"Enter", "Esc"} =>
               mode' = "Normal" /\ options'[Cursor].value = input_buffer
          /\ key'.code = "Char" =>
               mode' = "Input" /\ input_buffer' = Append(input_buffer, key'.ch)
     /\ (session = "running" /\ session' # "running") => mode = "Normal"]_vars

\* the character that aborts in Normal mode has been typed twice
C16_Witness ==
  /\ session = "running"
  /\ mode = "Input"
  /\ IsChar(key, "q")
  /\ input_buffer = <<"q", "q">>
  /\ result = None

\* the command assembled from the options of the state
Assembled == build_command(base_command, options)

\* C17: Enter, the copy key and the execute key in Normal mode each end
\* the session with the command assembled from the options at that moment
\* and the mode Print, Clipboard or Execute; the abort keys end it with no
\* result; handle_output receives the result of a session that has one,
\* and nothing after an abort.
C17_SessionResult ==
  [][/\ (session = "running" /\ mode = "Normal" /\ key'.code = "Enter") =>
          /\ session' = "emitted"
          /\ result' = Some([command |-> Assembled, mode |-> "Print"])
     /\ (/\ session = "running" /\ mode = "Normal"
         /\ IsChar(key', "c") /\ key'.ctrl) =>
          /\ session' = "emitted"
          /\ result' = Some([command |-> Assembled, mode |-> "Clipboard"])
     /\ (/\ session = "running" /\ mode = "Normal"
         /\ IsChar(key', "x") /\ key'.ctrl) =>
          /\ session' = "emitted"
          /\ result' = Some([command |-> Assembled, mode |-> "Execute"])
     /\ (/\ session = "running" /\ mode = "Normal"
         /\ (IsChar(key', "q") \/ key'.code = "Esc")) =>
          session' = "aborted" /\ result' = None
     /\ (session = "running" /\ session' # "running") =>
          session' \in {"emitted", "aborted"}
     /\ session' = "emitted" <=> (is_some(result') /\ sink' = None)
     /\ session = "emitted" => sink' = result /\ result' = result
     /\ session = "aborted" => sink' = None /\ result' = None
     /\ session' \in {"exited", "failed"} => sink' = result']_vars

\* a session with an option selected was aborted, and main has returned
\* without a call of handle_output
C17_Witness ==
  /\ session = "exited"
  /\ IsChar(key, "q")
  /\ \E i \in 1..Len(options) : options[i].selected
  /\ result = None
  /\ sink = None

\* C18: before the first event the cursor is at 0, the mode is Normal,
\* the edit buffer is empty, every option is unselected with an empty
\* value and choice_index 0, and the command shown is the base tokens.
C18_InitialState ==
  key = NoEvent =>
    /\ list_state = Some(0)
    /\ mode = "Normal"
    /\ input_buffer = << >>
    /\ \A i \in 1..Len(options) :
         /\ ~options[i].selected
         /\ options[i].value = << >>
         /\ options[i].choice_index = 0
    /\ IsJoined(preview, base_command)
    /\ session = "running" /\ result = None

\* the initial state for three options, two of them with a placeholder,
\* and two base tokens
C18_Witness ==
  /\ key = NoEvent
  /\ help = "mixed"
  /\ Len(options) = 3
  /\ Len(base_command) = 2

\* C19: handle_input_key with a character puts that character at the end
\* of the edit buffer, and with Backspace takes the last character of the
\* buffer away, or nothing from an empty buffer; in both cases the mode,
\* the cursor and the options stay as they were.
C19_BufferEdit ==
  (u_pc = "done" /\ u_in.kind = "key") =>
    LET buf == u_in.app.input_buffer
        out == u_out.input_buffer
    IN  /\ u_in.key.code = "Char" =>
             /\ Len(out) = Len(buf) + 1
             /\ out[Len(out)] = u_in.key.ch
             /\ \A i \in 1..Len(buf) : out[i] = buf[i]
        /\ u_in.key.code = "Backspace" =>
             /\ Len(out) = IF Len(buf) = 0 THEN 0 ELSE Len(buf) - 1
             /\ \A i \in 1..Len(out) : out[i] = buf[i]
        /\ u_in.key.code \in {"Char", "Backspace"} =>
             /\ u_out.mode = "Input"
             /\ u_out.list_state = u_in.app.list_state
             /\ u_out.options = u_in.app.options
             /\ u_out.base_command = u_in.app.base_command
             /\ u_out.should_quit = u_in.app.should_quit
             /\ u_out.output_mode = u_in.app.output_mode

\* a character typed after two others that differ from it
C19_Witness ==
  /\ u_pc = "done" /\ u_in.kind = "key"
  /\ u_in.app.input_buffer = <<"q", "a">>
  /\ IsChar(u_in.key, "x")
  /\ u_out.input_buffer = <<"q", "a", "x">>

\* C20: with a non-empty choice list of n choices next_choice sets
\* choice_index to (choice_index + 1) mod n and prev_choice to
\* (choice_index - 1) mod n, so that the last index is followed by 0 and 0
\* is preceded by the last index, each undoes the other, and no other
\* field changes; without choices or with an empty list both leave the
\* option as it is.
C20_CyclicChoice ==
  (u_pc = "done" /\ u_in.kind = "choice") =>
    LET opt == u_in.opt
        n == IF is_some(opt.choices) THEN Len(opt.choices[1]) ELSE 0
    IN  IF n = 0
        THEN u_out.next = opt /\ u_out.prev = opt
        ELSE /\ u_out.next.choice_index = (opt.choice_index + 1) % n
             /\ u_out.prev.choice_index = (opt.choice_index + n - 1) % n
             /\ opt.choice_index = n - 1 => u_out.next.choice_index = 0
             /\ opt.choice_index = 0 => u_out.prev.choice_index = n - 1
             /\ u_out.next_prev = opt
             /\ u_out.prev_next = opt
             /\ [u_out.next EXCEPT !.choice_index = opt.choice_index] = opt
             /\ [u_out.prev EXCEPT !.choice_index = opt.choice_index] = opt

\* prev_choice from the first of three choices
C20_Witness ==
  /\ u_pc = "done" /\ u_in.kind = "choice"
  /\ is_some(u_in.opt.choices)
  /\ Len(u_in.opt.choices[1]) = 3
  /\ u_in.opt.choice_index = 0
  /\ u_out.prev.choice_index = 2
  /\ u_out.prev_next.choice_index = 0

LsColorAlways ==
  <<"l", "s", " ", "-", "-", "c", "o", "l", "o", "r", " ",
    "a", "l", "w", "a", "y", "s">>

\* C21: for the help text of the single option "--color <WHEN>" with the
\* possible values auto, always, never and the base tokens ["ls"], the
\* toggle that selects the option leaves the mode Normal and choice_index
\* 0, and one cycle-forward event after it makes the command
\* "ls --color always".
C21_ColorScenario ==
  [][(/\ help = "color" /\ base_command = << <<"l", "s">> >>
      /\ session = "running") =>
       /\ Len(options) = 1
       /\ (key = NoEvent /\ IsChar(key', " ")) =>
            /\ mode' = "Normal"
            /\ options'[1].selected
            /\ options'[1].choice_index = 0
       /\ (/\ IsChar(key, " ") /\ mode = "Normal" /\ options[1].selected
           /\ options[1].choice_index = 0
           /\ (key'.code = "Right" \/ IsChar(key', "l"))) =>
            /\ preview' = LsColorAlways
            /\ build_command(base_command, options') = LsColorAlways]_vars

\* the option was selected and cycled forward once
C21_Witness ==
  /\ help = "color" /\ base_command = << <<"l", "s">> >>
  /\ session = "running"
  /\ key.code = "Right"
  /\ toggle_order = <<0>>
  /\ options[1].choice_index = 1
  /\ preview = LsColorAlways

\* the (short, long) pair of an option
identity(opt) == <<opt.short, opt.long>>

\* the indices of the options of cands that no option with the same pair
\* precedes
FirstIdx(cands) ==
  {i \in 1..Len(cands) :
     \A j \in 1..(i - 1) : identity(cands[j]) # identity(cands[i])}

\* the k-th smallest of the set of indices F
Nth(F, k) == CHOOSE i \in F : Cardinality({j \in F : j <= i}) = k

\* C22: the options parse_help returns have pairwise different (short,
\* long) pairs; they are the candidates that no candidate with the same
\* pair precedes, in the order in which the candidates were found.
C22_FirstOfEachPairInOrder ==
  (u_pc = "done" /\ u_in.kind = "parse") =>
    LET res == u_out.options
        cands == u_out.candidates
    IN  /\ \A i, j \in 1..Len(res) :
             i # j => identity(res[i]) # identity(res[j])
        /\ Len(res) = Cardinality(FirstIdx(cands))
        /\ \A k \in 1..Len(res) : res[k] = cands[Nth(FirstIdx(cands), k)]
        /\ res = parse_help(u_in.input)

\* "-a, --all" with the description B, then "--dry", then "-a, --all" with
\* the description A: the third candidate is dropped
C22_Witness ==
  /\ u_pc = "done" /\ u_in.kind = "parse"
  /\ u_in.lines = <<2, 7, 1>>
  /\ Len(u_out.candidates) = 3
  /\ Len(u_out.options) = 2
  /\ u_out.options[1].description = <<"B">>
  /\ u_out.options[2].long = Some(<<"d", "r", "y">>)

\* what the three passes find in the text drawn
PrimaryFound == main_loop(u_in.input, captures_iter(pattern, u_in.input, 1))

SimpleFound ==
  simple_loop(u_in.input, captures_iter(simple_pattern, u_in.input, 1))

LongOnlyFound ==
  long_only_loop(u_in.input, captures_iter(long_only_pattern, u_in.input, 1))

ValueIffHintOrChoices(opts) ==
  \A i \in 1..Len(opts) :
    opts[i].takes_value <=>
      (is_some(opts[i].value_hint) \/ is_some(opts[i].choices))

\* C24: every option that the primary pass, the short-only pass or the
\* long-only pass makes of a text, and every option parse_help returns,
\* takes a value exactly when it has a value_hint or a choice list; the
\* line "-o, --out <FILE>  O" gives an option with takes_value and the
\* value_hint "FILE".
C24_TakesValueIffHintOrChoices ==
  u_in.kind = "parse" =>
    /\ ValueIffHintOrChoices(PrimaryFound)
    /\ ValueIffHintOrChoices(SimpleFound)
    /\ ValueIffHintOrChoices(LongOnlyFound)
    /\ ValueIffHintOrChoices(u_out.options)
    /\ (u_pc = "done" /\ \E k \in 1..Len(u_in.lines) : u_in.lines[k] = 3) =>
         \E i \in 1..Len(u_out.options) :
           /\ u_out.options[i].long = Some(<<"o", "u", "t">>)
           /\ u_out.options[i].short = Some("o")
           /\ u_out.options[i].takes_value
           /\ u_out.options[i].value_hint = Some(<<"F", "I", "L", "E">>)

\* an option with a placeholder, one with choices and no placeholder and
\* one with neither
C24_Witness ==
  /\ u_pc = "done" /\ u_in.kind = "parse"
  /\ u_in.lines = <<3, 6, 4>>
  /\ Len(u_out.options) = 3
  /\ u_out.options[1].value_hint = Some(<<"F", "I", "L", "E">>)
  /\ u_out.options[2].takes_value
  /\ u_out.options[2].value_hint = None
  /\ u_out.options[2].choices = Some(<< <<"x">>, <<"y">> >>)
  /\ ~u_out.options[3].takes_value

\* the heads written in lower case with "[", which the comment of
\* extract_choices gives as the forms to match
LowerCaseHeads == {1, 2, 3, 4}

\* the heads written with capital letters, and the lower-case head each
\* differs from in case only
CapitalHeads == {5, 6}

LowerCaseForm(h) == IF h = 5 THEN 1 ELSE IF h = 6 THEN 2 ELSE h

\* the entries of the enumeration drawn that are not empty once trimmed,
\* trimmed, in order
RECURSIVE KeptEntries(_)
KeptEntries(entries) ==
  IF Len(entries) = 0 THEN << >>
  ELSE (IF entries[1].clean = << >> THEN << >> ELSE <<entries[1].clean>>)
       \o KeptEntries(Tail(entries))

\* C25: for a description with a bracketed enumeration in one of the
\* lower-case forms, extract_choices returns the entries between the
\* commas that are not empty once trimmed, trimmed and in order, and the
\* description without the bracketed part and without whitespace around
\* it, if there is such an entry; if there is none, or the description has
\* no enumeration, it returns no choices and the description as it was;
\* the choices are never a present but empty list.  "Coloring [possible
\* values: auto, always, never]" gives auto, always, never and "Coloring".
C25_ExtractChoices ==
  (u_pc = "done" /\ u_in.kind = "extract" /\ u_in.head \notin CapitalHeads) =>
    LET kept == KeptEntries(u_in.entries)
        found == u_in.head \in LowerCaseHeads /\ Len(kept) > 0
    IN  /\ found =>
             /\ u_out.choices = Some(kept)
             /\ u_out.description = trim(u_in.prefix \o u_in.suffix)
             /\ Len(u_out.description) > 0 =>
                  /\ ~is_whitespace(u_out.description[1])
                  /\ ~is_whitespace(u_out.description[Len(u_out.description)])
        /\ ~found =>
             /\ u_out.choices = None
             /\ u_out.description = u_in.description
        /\ u_out.choices # Some(<< >>)
        /\ u_in = ColoringInput =>
             /\ u_out.choices = Some(<< <<"a", "u", "t", "o">>,
                                        <<"a", "l", "w", "a", "y", "s">>,
                                        <<"n", "e", "v", "e", "r">> >>)
             /\ u_out.description = <<"C", "o", "l", "o", "r", "i", "n", "g">>

\* an enumeration between a prefix and a suffix, with an empty entry
\* between two entries
C25_Witness ==
  /\ u_pc = "done" /\ u_in.kind = "extract"
  /\ u_in.head = 1
  /\ u_in.prefix = <<"C", " ">> /\ u_in.suffix = <<" ", "z">>
  /\ Len(u_in.entries) = 3
  /\ u_in.entries[2].raw = <<" ">>
  /\ u_out.choices = Some(<< <<"b">>, <<"a">> >>)
  /\ u_out.description = <<"C", " ", " ", "z">>

\* what extract_choices returns for the description drawn with its head
\* in lower case
LowerCaseResult ==
  extract_choices(describe(u_in.prefix, LowerCaseForm(u_in.head),
                           u_in.entries, u_in.suffix))

\* C26 as stated: a description with the enumeration headed "[Possible
\* Values:" or "[VALUES:" gives the choices and the cleaned description
\* that the same description gives with the head in lower case.
C26_Original ==
  (u_pc = "done" /\ u_in.kind = "extract" /\ u_in.head \in CapitalHeads) =>
    u_out = LowerCaseResult

\* C26, amended: the enumeration is recognised in lower case only.  A
\* description with the enumeration headed "[Possible Values:" or
\* "[VALUES:" gives no choices and comes back as it was, while with the
\* head in lower case it gives the entries that are not empty as choices.
C26_CaseSensitive ==
  (u_pc = "done" /\ u_in.kind = "extract" /\ u_in.head \in CapitalHeads) =>
    /\ u_out.choices = None
    /\ u_out.description = u_in.description
    /\ Len(KeptEntries(u_in.entries)) > 0 =>
         /\ LowerCaseResult.choices = Some(KeptEntries(u_in.entries))
         /\ LowerCaseResult.description = trim(u_in.prefix \o u_in.suffix)

\* "[VALUES:a, b ]" after a prefix
C26_Witness ==
  /\ u_pc = "done" /\ u_in.kind = "extract"
  /\ u_in.head = 6
  /\ u_in.prefix = <<"C", " ">> /\ u_in.suffix = << >>
  /\ KeptEntries(u_in.entries) = << <<"a">>, <<"b">> >>
  /\ u_out.choices = None
  /\ u_out.description = u_in.description

\* the streams of a program that was started; one that could not be
\* started has none
StreamsOf(inv) == IF inv.spawned THEN <<inv.stdout, inv.stderr>> ELSE << >>

\* the streams of the invocations made, in the order stdout and stderr of
\* --help, stdout and stderr of -h
StreamsMade ==
  (IF \E i \in 1..Len(u_out.invoked) : u_out.invoked[i] = "--help"
   THEN StreamsOf(u_in.help) ELSE << >>)
  \o (IF \E i \in 1..Len(u_out.invoked) : u_out.invoked[i] = "-h"
      THEN StreamsOf(u_in.h) ELSE << >>)

\* the places of StreamsMade with a text that is not empty
NonEmptyStreams == {i \in 1..Len(StreamsMade) : StreamsMade[i] # "empty"}

\* get_help_text has returned
Acquired == u_in.kind = "main" /\ u_pc \notin {"input", "h"}

\* C27: get_help_text looks at the standard output and then the standard
\* error of the invocation with --help, then at those of the invocation
\* with -h, and returns the first of them that is not empty; it invokes
\* with -h only after both streams of --help were empty, and it returns
\* nothing only when no stream it got has a text.
C27_FirstNonEmptyStream ==
  Acquired =>
    /\ u_out.invoked \in {<<"--help">>, <<"--help", "-h">>}
    /\ u_out.invoked = <<"--help", "-h">> <=>
         (/\ u_in.help.spawned
          /\ u_in.help.stdout = "empty" /\ u_in.help.stderr = "empty")
    /\ u_out.help_text =
         IF NonEmptyStreams = {} THEN None
         ELSE Some(StreamsMade[Min(NonEmptyStreams)])
    /\ u_out.examined =
         IF NonEmptyStreams = {} THEN StreamsMade
         ELSE SubSeq(StreamsMade, 1, Min(NonEmptyStreams))
    /\ is_some(u_out.help_text) => ~is_empty(HelpText(u_out.help_text[1]))

\* the first three streams were empty and the standard error of the
\* invocation with -h had the text
C27_Witness ==
  /\ Acquired
  /\ u_out.invoked = <<"--help", "-h">>
  /\ u_out.examined = <<"empty", "empty", "empty", "ls">>
  /\ u_out.help_text = Some("ls")

\* the run is over, or the engine has been started
Settled == u_in.kind = "main" /\ u_pc \in {"exited", "engine"}

\* the run has ended with the error message msg and the exit code 1,
\* without an engine, a session result or a call of handle_output
EndedWithError(msg) ==
  /\ u_pc = "exited"
  /\ u_out.reported = <<msg>>
  /\ u_out.exit = Some(1)
  /\ session = "off" /\ result = None /\ sink = None

C29_ExecuteStatus ==
  (u_pc = "done" /\ u_in.kind = "output") =>
    /\ u_in.mode = "Print" =>
         /\ u_out.ok
         /\ u_out.stdout = <<u_in.command>>
         /\ u_out.executed = None
    /\ (u_in.mode = "Execute" /\ u_in.env.spawn) =>
         /\ u_out.executed = Some(<<"sh", "-c", u_in.command>>)
         /\ u_out.ok <=> u_in.env.status.code = Some(0)
         /\ ~u_out.ok =>
              u_out.error = <<"Command exited with status", u_in.env.status>>
    /\ (Len(u_out.error) > 0 /\ u_out.error[1] = "Command exited with status")
         <=> (/\ u_in.mode = "Execute" /\ u_in.env.spawn
              /\ u_in.env.status.code # Some(0))

\* the command was executed and has ended with the exit code 2
C29_Witness ==
  /\ u_pc = "done" /\ u_in.kind = "output"
  /\ u_in.mode = "Execute"
  /\ u_in.env.spawn
  /\ u_in.env.status = [code |-> Some(2)]
  /\ ~u_out.ok
  /\ u_out.executed = Some(<<"sh", "-c", u_in.command>>)

\* C30: the engine is never in Input mode with the cursor on an option
\* that has a choice list, and so no commit of an edit deselects an option
\* with choices.
C30_EditingOnlyWithoutChoices ==
  [][/\ (session' = "running" /\ mode' = "Input") =>
          options'[list_state'[1] + 1].choices = None
     /\ (/\ session = "running" /\ mode = "Input"
         /\ is_some(options[Cursor].choices) /\ options[Cursor].selected) =>
          options'[Cursor].selected]_vars

\* the arguments of the options of the state
OptionArgs == present([i \in 1..Len(options) |-> to_arg(options[i])])

\* C31: in Normal mode no selected option that takes a value and has no
\* choices has an empty value; every selected option has an argument, and
\* the command is the base tokens and as many arguments as there are
\* selected options.
C31_SelectedContributesOne ==
  (session # "off" /\ mode = "Normal") =>
    /\ \A i \in 1..Len(options) :
         /\ (/\ options[i].selected /\ options[i].takes_value
             /\ options[i].choices = None) => options[i].value # << >>
         /\ options[i].selected <=> is_some(to_arg(options[i]))
         /\ is_some(options[i].short) \/ is_some(options[i].long)
    /\ Len(OptionArgs) = Cardinality({i \in 1..Len(options) : options[i].selected})
    /\ IsJoined(preview, base_command \o OptionArgs)

\* after an edit that was committed with a value and one that was
\* committed empty, with a boolean option selected
C31_Witness ==
  /\ session = "running" /\ mode = "Normal"
  /\ key.code = "Enter"
  /\ Len(options) = 3
  /\ options[1].selected
  /\ options[2].selected /\ options[2].value = <<"q">>
  /\ ~options[3].selected
  /\ Len(OptionArgs) = 2

\* C32: in Input mode the option under the cursor is selected and takes a
\* value; no event in Input mode moves the cursor, and Enter and Esc write
\* the buffer into the option under it and into no other.
C32_EditingTarget ==
  [][/\ (session' = "running" /\ mode' = "Input") =>
          /\ options'[list_state'[1] + 1].selected
          /\ options'[list_state'[1] + 1].takes_value
     /\ (session = "running" /\ mode = "Input") =>
          /\ list_state' = list_state
          /\ key'.code \in {"Enter", "Esc"} =>
               /\ options'[Cursor].value = input_buffer
               /\ \A i \in 1..Len(options) : i # Cursor => options'[i] = options[i]
          /\ key'.code \notin {"Enter", "Esc"} =>
               mode' = "Input" /\ options' = options]_vars

\* the edit of the second of three options was committed with the cursor
\* where the edit began
C32_Witness ==
  /\ session = "running" /\ mode = "Normal"
  /\ key.code = "Enter"
  /\ Len(options) = 3
  /\ list_state = Some(1)
  /\ options[2].value = <<"q", "q">>
  /\ options[1].value = << >> /\ options[3].value = << >>

\* the fields of an option that the events change
Mutable(opt) == <<opt.selected, opt.value, opt.choice_index>>

\* C33: an event changes selected, value or choice_index of no option but
\* the one under the cursor, which it does not move then; the keys that
\* move the cursor change no option.
C33_OneOptionPerEvent ==
  [][session = "running" =>
       /\ \A i \in 1..Len(options) :
            Mutable(options'[i]) # Mutable(options[i]) =>
              /\ i = Cursor
              /\ list_state' = list_state
       /\ \A i \in 1..Len(options) : i # Cursor => options'[i] = options[i]
       /\ (mode = "Normal"
           /\ (key'.code \in {"Up", "Down"} \/ IsCharOf(key', {"k", "j"}))) =>
            options' = options]_vars

\* the third option was turned on while the first two were selected, with
\* a value and without one
C33_Witness ==
  /\ session = "running" /\ mode = "Normal"
  /\ IsChar(key, " ")
  /\ Len(options) = 3
  /\ list_state = Some(2)
  /\ options[1].selected
  /\ options[2].selected /\ options[2].value = <<"q">>
  /\ options[3].selected

\* C34: a toggle that turns an option off changes its selected only and
\* leaves the mode Normal; the toggle that turns it on again at once
\* brings back the command shown before, with the edit buffer holding the
\* value kept for an option that takes a value and has no choices, and
\* with the choice kept for an option with choices; Enter or Esc at once
\* after it leaves the options and the command as they were.
C34_ToggleOffKeepsValue ==
  [][/\ (/\ session = "running" /\ mode = "Normal" /\ IsChar(key', " ")
         /\ options[Cursor].selected) =>
          /\ options' = [options EXCEPT ![Cursor].selected = FALSE]
          /\ mode' = "Normal"
     /\ (/\ session = "running" /\ mode = "Normal" /\ IsChar(key, " ")
         /\ ~options[Cursor].selected /\ IsChar(key', " ")) =>
          /\ options' = [options EXCEPT ![Cursor].selected = TRUE]
          /\ preview' = prior
          /\ (options[Cursor].takes_value /\ options[Cursor].choices = None) =>
               mode' = "Input" /\ input_buffer' = options[Cursor].value
          /\ is_some(options[Cursor].choices) => mode' = "Normal"
     /\ (/\ session = "running" /\ mode = "Input" /\ IsChar(key, " ")
         /\ input_buffer = options[Cursor].value /\ input_buffer # << >>
         /\ key'.code \in {"Enter", "Esc"}) =>
          /\ options' = options
          /\ preview' = preview
          /\ mode' = "Normal"]_vars

\* an option with the value "q" was turned off and on again: the edit
\* buffer holds the value kept and the option is in the command with it
C34_Witness ==
  /\ session = "running" /\ mode = "Input"
  /\ IsChar(key, " ")
  /\ Len(options) = 3
  /\ options[Cursor].selected
  /\ options[Cursor].value = <<"q">>
  /\ input_buffer = <<"q">>
  /\ Len(OptionArgs) = 1


\* the wizard of a run that reads key events
InLoop == u_pc = "loop" /\ u_in.kind = "wizard"

\* the step at current_step among the steps visible under the answers of w
ShownStep(w) == visible_steps(w)[w.current_step + 1]

\* the option highlighted in the Choice step shown by w has a chain target
HasChainTarget(w) ==
  /\ ShownStep(w).step_type = "Choice"
  /\ w.choice_index < Len(ShownStep(w).options)
  /\ is_some(ShownStep(w).options[w.choice_index + 1].chain)

\* the answer that the widget of the step shown by w holds
WidgetAnswer(w) ==
  CASE ShownStep(w).step_type = "Choice" -> Answer_Choice(w.choice_index)
    [] ShownStep(w).step_type = "Toggle" -> Answer_Toggle(w.toggle_value)
    [] ShownStep(w).step_type = "Text" -> Answer_Text(w.text_buffer)
    [] ShownStep(w).step_type = "Multi" ->
         Answer_Multi(selected_indices(w.multi_selected, 0))

\* the widget of the step shown by w is in its initial state
FreshWidget(w) ==
  CASE ShownStep(w).step_type = "Choice" ->
         w.choice_index = IF is_some(ShownStep(w).default)
                          THEN ShownStep(w).default[1] ELSE 0
    [] ShownStep(w).step_type = "Toggle" -> ~w.toggle_value
    [] ShownStep(w).step_type = "Text" -> w.text_buffer = << >>
    [] ShownStep(w).step_type = "Multi" ->
         /\ Len(w.multi_selected) = Len(ShownStep(w).options)
         /\ \A i \in 1..Len(w.multi_selected) : ~w.multi_selected[i]

C36_ChainLeavesWizard ==
  [][(InLoop /\ u_out.wizard.phase = "Steps") =>
       /\ is_some(get_current_chain(u_out.wizard)) => HasChainTarget(u_out.wizard)
       /\ (u_out'.key.code = "Enter" /\ HasChainTarget(u_out.wizard)) =>
            /\ u_out'.result =
                 Some(WizardResult_Chain(
                        ShownStep(u_out.wizard).options[
                          u_out.wizard.choice_index + 1].chain[1]))
            /\ u_out'.wizard.answers = u_out.wizard.answers
            /\ u_out'.wizard.current_step = u_out.wizard.current_step
            /\ u_out'.wizard.phase = u_out.wizard.phase]_vars

\* the run ended with the chain of the option Run, after the step of the
\* multi had been answered and left again
C36_Witness ==
  /\ u_pc = "done"
  /\ u_in.config = ConfigChain
  /\ u_out.key.code = "Enter"
  /\ u_out.result = Some(WizardResult_Chain(<<"r", "u", "n">>))
  /\ u_out.wizard.choice_index = 0
  /\ u_out.wizard.current_step = 0
  /\ u_out.wizard.answers["action"] = Some(Answer_Choice(2))


\* the step of the config of w with the id
StepOf(w, id) ==
  CHOOSE s \in {w.config.steps[i] : i \in 1..Len(w.config.steps)} : s.id = id

\* the saved answer of the step id matches the expected value
Matches(w, id, expected) ==
  LET a == w.answers[id][1]
  IN  CASE StepOf(w, id).step_type = "Choice" ->
             StepOf(w, id).options[a.idx + 1].label = expected
        [] StepOf(w, id).step_type = "Toggle" ->
             expected = IF a.val THEN <<"t", "r", "u", "e">>
                        ELSE <<"f", "a", "l", "s", "e">>
        [] StepOf(w, id).step_type = "Text" -> a.text = expected
        [] StepOf(w, id).step_type = "Multi" ->
             \E k \in 1..Len(a.indices) :
               StepOf(w, id).options[a.indices[k] + 1].label = expected

\* step has no when, or every step its when refers to has a saved answer
\* that matches
Visible(w, step) ==
  \/ step.when = None
  \/ \A entry \in step.when[1] :
       /\ w.answers[entry[1]] # None
       /\ Matches(w, entry[1], entry[2])

\* the steps of steps that are Visible, in order
RECURSIVE VisibleOnly(_, _)
VisibleOnly(w, steps) ==
  IF Len(steps) = 0 THEN << >>
  ELSE (IF Visible(w, steps[1]) THEN <<steps[1]>> ELSE << >>)
       \o VisibleOnly(w, Tail(steps))

\* C37: a step without a when is shown; a step with a when is shown iff
\* every step it refers to has a saved answer that matches the expected
\* value (the label chosen, "true" or "false", the text, a label among the
\* selected ones); visible_steps is the steps shown under the answers of
\* the moment.
C37_VisibleIffAnswersMatch ==
  InLoop =>
    /\ \A i \in 1..Len(u_out.wizard.config.steps) :
         should_show_step(u_out.wizard, u_out.wizard.config.steps[i])
           <=> Visible(u_out.wizard, u_out.wizard.config.steps[i])
    /\ visible_steps(u_out.wizard)
         = VisibleOnly(u_out.wizard, u_out.wizard.config.steps)

\* the toggle z is the current step: both options of m are selected, the
\* text is "a" and y is on
C37_Witness ==
  /\ InLoop
  /\ u_in.config = ConfigWhen
  /\ u_out.wizard.phase = "Steps"
  /\ u_out.wizard.answers["m"] = Some(Answer_Multi(<<0, 1>>))
  /\ u_out.wizard.answers["t"] = Some(Answer_Text(<<"a">>))
  /\ u_out.wizard.answers["y"] = Some(Answer_Toggle(TRUE))
  /\ ShownStep(u_out.wizard).id = "z"


\* C38: a step hidden by its when under the answers of the moment
\* contributes nothing to the command: the command is the one assembled
\* without the answer of that step.
C38_HiddenContributesNothing ==
  InLoop =>
    \A i \in 1..Len(u_out.wizard.config.steps) :
      ~Visible(u_out.wizard, u_out.wizard.config.steps[i]) =>
        Wizard_build_command(u_out.wizard)
          = Wizard_build_command(
              [u_out.wizard EXCEPT
                 !.answers[u_out.wizard.config.steps[i].id] = None])


\* C39: Esc that goes back one step, or back from the Confirm phase, and
\* Enter right after it leave the answers and the command as they were
\* before the Esc.
C39_BackAndForthLosesNothing ==
  [][(InLoop /\ u_out.key.code = "Esc" /\ u_out.wizard.phase = "Steps"
      /\ u_out'.key.code = "Enter") =>
       /\ u_out'.wizard.answers = u_out.prior_answers
       /\ Wizard_build_command(u_out'.wizard)
            = Wizard_build_command(
                [u_out.wizard EXCEPT !.answers = u_out.prior_answers])]_vars

\* C40: in the Steps phase, on a Choice or Multi step with an option,
\* choice_index is an index of the options of the step.
C40_HighlightInRange ==
  (InLoop /\ u_out.wizard.phase = "Steps"
   /\ ShownStep(u_out.wizard).step_type \in {"Choice", "Multi"}
   /\ Len(ShownStep(u_out.wizard).options) > 0) =>
     u_out.wizard.choice_index < Len(ShownStep(u_out.wizard).options)

====
